---- MODULE Spec2Model ----
(***************************************************************************)
(* Model of the multi-keychain wallet: the additive ChangeSet protocol     *)
(* (keyring.rs, changeset.rs), its SQLite persistence, the Wallet          *)
(* aggregate with its in-memory stage (wallet.rs) and the transaction      *)
(* builder (tx_builder.rs).                                                *)
(***************************************************************************)
EXTENDS Integers, Sequences, FiniteSets, TLC

\* Option::None as a map value or a field (a network, a block hash, a keychain)
None == "None"
\* Option<T> of a structured T, and the outcome of a call that panicked
NONE == [tag |-> "None"]
Some(v) == [tag |-> "Some", v |-> v]
Panic == [tag |-> "panic"]

(***************************************************************************)
(* Bounds of the model.                                                    *)
(***************************************************************************)
\* highest derivation index a reveal may reach
MaxIndex == 1
\* how many persist calls SpecPersist follows
MaxPersists == 3

(***************************************************************************)
(* Value domains.                                                          *)
(***************************************************************************)
\* bitcoin::Network values the model draws from
Networks == {"Bitcoin", "Signet"}
\* single-path descriptors (Descriptor<DescriptorPublicKey>)
Descriptors == {"dA", "dB"}

\* DescriptorExt::descriptor_id: the content-derived identifier of a descriptor
descriptor_id(d) ==
  CASE d = "dA" -> "idA" [] d = "dB" -> "idB" [] d = "dH" -> "idH"

\* keychain identifiers K (K = DescriptorId for the persisted wallet)
Keychains == {descriptor_id(d) : d \in Descriptors}

\* block heights and hashes; "g" is the genesis hash of every modelled
\* network's chain
Heights == {0, 1}
TopHeight == CHOOSE h \in Heights : \A x \in Heights : x <= h
Hashes == {"g", "a", "b"}
genesis_hash(network) == "g"

\* transactions an update can bring into the graph
TxIds == {"t1", "t2"}

(***************************************************************************)
(* BTreeMap helpers: a map is a function whose DOMAIN is the key set.      *)
(***************************************************************************)
EmptyMap == [k \in {} |-> None]

\* BTreeMap::extend: entries of m2 overwrite entries of m1
Extend(m1, m2) ==
  [k \in DOMAIN m1 \cup DOMAIN m2 |-> IF k \in DOMAIN m2 THEN m2[k] ELSE m1[k]]

\* BTreeMap::insert
Insert(m, k, v) == [x \in DOMAIN m \cup {k} |-> IF x = k THEN v ELSE m[x]]

\* INSERT OR IGNORE of every row of m2: rows already present are kept
InsertOrIgnore(m1, m2) ==
  [k \in DOMAIN m1 \cup DOMAIN m2 |-> IF k \in DOMAIN m1 THEN m1[k] ELSE m2[k]]

\* all maps from subsets of K to V
Maps(K, V) == UNION {[S -> V] : S \in SUBSET K}

Max(x, y) == IF x >= y THEN x ELSE y

(***************************************************************************)
(* keyring::ChangeSet                                                      *)
(***************************************************************************)
keyring_default == [network |-> None, descriptors |-> EmptyMap]

\* a plausible slip: a delta recorded for another network is refused whole
keyring_merge_checking_network(self, other) ==
  IF self.network # None /\ other.network # None /\ self.network # other.network
    THEN self
    ELSE [network |-> IF self.network = None THEN other.network ELSE self.network,
          descriptors |-> Extend(self.descriptors, other.descriptors)]

\* impl Merge for keyring::ChangeSet: merge
keyring_merge(self, other) ==
  [network |-> IF self.network = None THEN other.network ELSE self.network,
   descriptors |-> Extend(self.descriptors, other.descriptors)]

\* impl Merge for keyring::ChangeSet: is_empty
keyring_is_empty(self) ==
  self.network = None /\ DOMAIN self.descriptors = {}

(***************************************************************************)
(* The collaborators' change sets (bdk_chain), as the aggregate uses them. *)
(*   local_chain : height -> hash or None (None disconnects the height)    *)
(*   tx_graph    : the set of transactions added                           *)
(*   indexer     : descriptor id -> last revealed derivation index         *)
(***************************************************************************)
local_chain_merge(self, other) == Extend(self, other)
local_chain_is_empty(self) == DOMAIN self = {}

tx_graph_merge(self, other) == self \cup other
tx_graph_is_empty(self) == self = {}

indexer_merge(self, other) ==
  [d \in DOMAIN self \cup DOMAIN other |->
     IF d \notin DOMAIN other THEN self[d]
     ELSE IF d \notin DOMAIN self THEN other[d]
     ELSE Max(self[d], other[d])]
indexer_is_empty(self) == DOMAIN self = {}

(***************************************************************************)
(* The aggregate ChangeSet (changeset.rs)                                  *)
(***************************************************************************)
ChangeSet_default ==
  [keyring |-> keyring_default, local_chain |-> EmptyMap,
   tx_graph |-> {}, indexer |-> EmptyMap]

\* impl Merge for ChangeSet: merge
merge(self, other) ==
  [keyring |-> keyring_merge(self.keyring, other.keyring),
   local_chain |-> local_chain_merge(self.local_chain, other.local_chain),
   tx_graph |-> tx_graph_merge(self.tx_graph, other.tx_graph),
   indexer |-> indexer_merge(self.indexer, other.indexer)]

\* a plausible slip: the indexer delta is forgotten in the conjunction
is_empty_without_indexer(self) ==
  /\ keyring_is_empty(self.keyring)
  /\ local_chain_is_empty(self.local_chain)
  /\ tx_graph_is_empty(self.tx_graph)

\* impl Merge for ChangeSet: is_empty
is_empty(self) ==
  /\ keyring_is_empty(self.keyring)
  /\ local_chain_is_empty(self.local_chain)
  /\ tx_graph_is_empty(self.tx_graph)
  /\ indexer_is_empty(self.indexer)

\* From<local_chain::ChangeSet>
from_local_chain(cs) == [ChangeSet_default EXCEPT !.local_chain = cs]
\* From<keychain_txout::ChangeSet>
from_indexer(cs) == [ChangeSet_default EXCEPT !.indexer = cs]
\* From<indexed_tx_graph::ChangeSet>
from_indexed_tx_graph(txs, ix) ==
  [ChangeSet_default EXCEPT !.tx_graph = txs, !.indexer = ix]

(***************************************************************************)
(* Inputs of the change-set specifications.                                *)
(***************************************************************************)
KeyRingChangeSets ==
  {[network |-> n, descriptors |-> m] :
     n \in Networks \cup {None}, m \in Maps(Keychains, Descriptors)}

\* the chain, graph and index deltas the inputs combine with a registry delta
SubDeltas ==
  { [local_chain |-> EmptyMap, tx_graph |-> {}, indexer |-> EmptyMap],
    [local_chain |-> (0 :> "g") @@ (1 :> "a"), tx_graph |-> {"t1"},
     indexer |-> ("idA" :> 0)],
    [local_chain |-> (1 :> "b"), tx_graph |-> {"t2"}, indexer |-> ("idA" :> 1)],
    [local_chain |-> EmptyMap, tx_graph |-> {}, indexer |-> ("idB" :> 0)] }

ChangeSets ==
  {[keyring |-> k, local_chain |-> s.local_chain, tx_graph |-> s.tx_graph,
    indexer |-> s.indexer] : k \in KeyRingChangeSets, s \in SubDeltas}

(***************************************************************************)
(* The SQLite store (changeset.rs, cfg(feature = "rusqlite")).             *)
(*   tables         : the schema exists (init_sqlite_tables has committed) *)
(*   network        : the text of row id = 0 of bdk_wallet, or None        *)
(*   descriptors    : bdk_descriptor, descriptor_id text -> descriptor text*)
(*   blocks, txs, last_revealed : the collaborators' tables                *)
(***************************************************************************)
EmptyStore ==
  [tables |-> FALSE, network |-> None, descriptors |-> EmptyMap,
   blocks |-> EmptyMap, txs |-> {}, last_revealed |-> EmptyMap]

\* Impl<Network> as SQL text (Network's Display) and back (its FromStr)
Network_to_sql(n) ==
  CASE n = "Bitcoin" -> "bitcoin" [] n = "Testnet" -> "testnet"
    [] n = "Signet" -> "signet" [] n = "Regtest" -> "regtest"
Network_from_sql(t) ==
  CASE t = "bitcoin" -> "Bitcoin" [] t = "testnet" -> "Testnet"
    [] t = "signet" -> "Signet" [] t = "regtest" -> "Regtest"

\* Impl<DescriptorId> as SQL text (the hash in hex) and back
DescriptorId_to_sql(k) == CASE k = "idA" -> "0a" [] k = "idB" -> "0b"
DescriptorId_from_sql(t) == CASE t = "0a" -> "idA" [] t = "0b" -> "idB"

\* Impl<Descriptor<DescriptorPublicKey>> as SQL text and back
Descriptor_to_sql(d) == CASE d = "dA" -> "wpkh(A/*)" [] d = "dB" -> "tr(B/0)"
Descriptor_from_sql(t) == CASE t = "wpkh(A/*)" -> "dA" [] t = "tr(B/0)" -> "dB"

\* BTreeMap iteration order of the keychain identifiers
KeyOrder == <<"idA", "idB">>

RECURSIVE descriptor_writes(_, _)
\* one INSERT OR IGNORE per entry of keyring.descriptors, in key order
descriptor_writes(descriptors, i) ==
  IF i > Len(KeyOrder) THEN <<>>
  ELSE (IF KeyOrder[i] \in DOMAIN descriptors
          THEN <<[kind |-> "descriptor", did |-> KeyOrder[i],
                  descriptor |-> descriptors[KeyOrder[i]]]>>
          ELSE <<>>)
       \o descriptor_writes(descriptors, i + 1)

\* the statements ChangeSet::persist_to_sqlite executes, in order
persist_writes(self) ==
  (IF self.keyring.network # None
     THEN <<[kind |-> "network", network |-> self.keyring.network]>> ELSE <<>>)
  \o descriptor_writes(self.keyring.descriptors, 1)
  \o <<[kind |-> "local_chain", blocks |-> self.local_chain],
       [kind |-> "tx_graph", txs |-> self.tx_graph],
       [kind |-> "indexer", last_revealed |-> self.indexer]>>

\* local_chain::ChangeSet::persist_to_sqlite: REPLACE a hash, DELETE a None
persist_blocks(blocks, cs) ==
  [h \in {x \in DOMAIN blocks \cup DOMAIN cs :
            x \in DOMAIN cs => cs[x] # None} |->
     IF h \in DOMAIN cs THEN cs[h] ELSE blocks[h]]

\* a plausible slip: descriptor rows hang off the wallet row, so REPLACE of an
\* existing wallet row deletes them with it
execute_cascading(db, w) ==
  CASE w.kind = "network" ->
         [db EXCEPT !.network = Network_to_sql(w.network),
                    !.descriptors = IF db.network = None THEN @ ELSE EmptyMap]
    [] w.kind = "descriptor" ->
         [db EXCEPT !.descriptors =
            InsertOrIgnore(db.descriptors,
              DescriptorId_to_sql(w.did) :> Descriptor_to_sql(w.descriptor))]
    [] w.kind = "local_chain" ->
         [db EXCEPT !.blocks = persist_blocks(db.blocks, w.blocks)]
    [] w.kind = "tx_graph" -> [db EXCEPT !.txs = db.txs \cup w.txs]
    [] w.kind = "indexer" ->
         [db EXCEPT !.last_revealed = Extend(db.last_revealed, w.last_revealed)]

\* one statement of persist_to_sqlite applied to the transaction's view
execute(db, w) ==
  CASE w.kind = "network" ->
         \* REPLACE INTO bdk_wallet(id, network) VALUES(0, :network)
         [db EXCEPT !.network = Network_to_sql(w.network)]
    [] w.kind = "descriptor" ->
         \* INSERT OR IGNORE INTO bdk_descriptor
         [db EXCEPT !.descriptors =
            InsertOrIgnore(db.descriptors,
              DescriptorId_to_sql(w.did) :> Descriptor_to_sql(w.descriptor))]
    [] w.kind = "local_chain" ->
         [db EXCEPT !.blocks = persist_blocks(db.blocks, w.blocks)]
    [] w.kind = "tx_graph" -> [db EXCEPT !.txs = db.txs \cup w.txs]
    [] w.kind = "indexer" ->
         [db EXCEPT !.last_revealed = Extend(db.last_revealed, w.last_revealed)]

RECURSIVE execute_all(_, _, _)
\* the first n statements of ws applied to db
execute_all(db, ws, n) ==
  IF n = 0 THEN db ELSE execute(execute_all(db, ws, n - 1), ws[n])

\* ChangeSet::persist_to_sqlite run to completion inside a transaction
persist_to_sqlite(self, db) ==
  execute_all(db, persist_writes(self), Len(persist_writes(self)))

\* ChangeSet::init_sqlite_tables
init_sqlite_tables(db) == [db EXCEPT !.tables = TRUE]

\* a plausible slip: the descriptor rows are not read back
from_sqlite_without_descriptors(db) ==
  [keyring |->
     [network |-> IF db.network = None THEN None
                  ELSE Network_from_sql(db.network),
      descriptors |-> EmptyMap],
   local_chain |-> db.blocks,
   tx_graph |-> db.txs,
   indexer |-> db.last_revealed]

\* ChangeSet::from_sqlite: the whole store read as one changeset
from_sqlite(db) ==
  [keyring |->
     [network |-> IF db.network = None THEN None
                  ELSE Network_from_sql(db.network),
      descriptors |->
        [k \in {DescriptorId_from_sql(t) : t \in DOMAIN db.descriptors} |->
           Descriptor_from_sql(db.descriptors[DescriptorId_to_sql(k)])]],
   local_chain |-> db.blocks,
   tx_graph |-> db.txs,
   indexer |-> db.last_revealed]

\* ChangeSet::initialize: None when the store holds nothing
initialize(db) ==
  IF is_empty(from_sqlite(db)) THEN NONE ELSE Some(from_sqlite(db))

(***************************************************************************)
(* KeyRing (keyring.rs)                                                    *)
(***************************************************************************)
\* KeyRing::new
KeyRing_new(network) == [network |-> network, descriptors |-> EmptyMap]

\* KeyRing::add_descriptor: the descriptor is bound to the keychain, replacing
\* what the keychain had
add_descriptor(self, keychain, descriptor) ==
  [self EXCEPT !.descriptors = Insert(@, keychain, descriptor)]

\* What a caller hands to the validated operations (impl
\* IntoWalletDescriptor): text that does not parse for the registry's
\* network, a single-path descriptor, or a multipath descriptor with the
\* single-path descriptors it splits into. "dH" has a hardened step below
\* its public key and cannot derive any index.
SingleDescriptors == Descriptors \cup {"dH"}
DescriptorInputs ==
  {[kind |-> "unparsable"]}
    \cup {[kind |-> "single", d |-> d] : d \in SingleDescriptors}
    \cup {[kind |-> "multi", branches |-> <<p[1], p[2]>>] :
            p \in {q \in SingleDescriptors \X SingleDescriptors :
                     q[1] # q[2]}}

\* IntoWalletDescriptor::into_wallet_descriptor(..).is_ok()
into_wallet_descriptor_ok(input) == input.kind # "unparsable"
\* Descriptor::is_multipath
is_multipath(input) == input.kind = "multi"
\* Descriptor::into_single_descriptors
into_single_descriptors(input) == input.branches
\* Descriptor::at_derivation_index(0).is_ok()
at_derivation_index_ok(d) == d # "dH"

\* a plausible slip: the keychain's binding is replaced without a check
add_descriptor_validated_overwriting(self, keychain, input) ==
  IF ~into_wallet_descriptor_ok(input)
    THEN [res |-> "DescriptorParsing", keyring |-> self]
  ELSE IF is_multipath(input)
    THEN [res |-> "MultipathDescriptorNotAllowed", keyring |-> self]
  ELSE IF ~at_derivation_index_ok(input.d)
    THEN [res |-> "AddressGeneration", keyring |-> self]
  ELSE [res |-> "Ok", keyring |-> add_descriptor(self, keychain, input.d)]

\* KeyRing::add_descriptor_validated
add_descriptor_validated(self, keychain, input) ==
  IF ~into_wallet_descriptor_ok(input)
    THEN [res |-> "DescriptorParsing", keyring |-> self]
  ELSE IF is_multipath(input)
    THEN [res |-> "MultipathDescriptorNotAllowed", keyring |-> self]
  ELSE IF keychain \in DOMAIN self.descriptors
    THEN [res |-> "DuplicateDescriptor", keyring |-> self]
  ELSE IF ~at_derivation_index_ok(input.d)
    THEN [res |-> "AddressGeneration", keyring |-> self]
  ELSE [res |-> "Ok", keyring |-> add_descriptor(self, keychain, input.d)]

RECURSIVE add_multipath_branches(_, _, _)
\* the for loop of add_multipath_descriptor_validated from branch i on: each
\* branch is checked and inserted before the next one is looked at
add_multipath_branches(self, descriptors, i) ==
  IF i > Len(descriptors) THEN [res |-> "Ok", keyring |-> self]
  ELSE
    LET descriptor == descriptors[i]
        did == descriptor_id(descriptor)
    IN IF did \in DOMAIN self.descriptors
         THEN [res |-> "DuplicateDescriptor", keyring |-> self]
       ELSE IF ~at_derivation_index_ok(descriptor)
         THEN [res |-> "AddressGeneration", keyring |-> self]
       ELSE add_multipath_branches(add_descriptor(self, did, descriptor),
                                   descriptors, i + 1)

\* a plausible slip: a single-path descriptor is taken as a batch of one
add_multipath_descriptor_validated_taking_single(self, input) ==
  IF ~into_wallet_descriptor_ok(input)
    THEN [res |-> "DescriptorParsing", keyring |-> self]
  ELSE IF ~is_multipath(input)
    THEN add_multipath_branches(self, <<input.d>>, 1)
  ELSE add_multipath_branches(self, into_single_descriptors(input), 1)

\* KeyRing::add_multipath_descriptor_validated
add_multipath_descriptor_validated(self, input) ==
  IF ~into_wallet_descriptor_ok(input)
    THEN [res |-> "DescriptorParsing", keyring |-> self]
  ELSE IF ~is_multipath(input)
    THEN [res |-> "SingleDescriptorNotAllowed", keyring |-> self]
  ELSE add_multipath_branches(self, into_single_descriptors(input), 1)

RECURSIVE insert_branches(_, _, _)
\* the for loop of add_multipath_descriptor from branch i on: each branch is
\* inserted under its descriptor id, replacing what the id was bound to
insert_branches(self, descriptors, i) ==
  IF i > Len(descriptors) THEN self
  ELSE insert_branches(add_descriptor(self, descriptor_id(descriptors[i]),
                                      descriptors[i]),
                       descriptors, i + 1)

\* KeyRing::add_multipath_descriptor: expect("err: invalid descriptor") on
\* the parse and assert!(descriptor.is_multipath()) panic, the registry being
\* as it was; no branch is tested for a binding or for derivation
add_multipath_descriptor(self, input) ==
  IF ~into_wallet_descriptor_ok(input) \/ ~is_multipath(input)
    THEN [res |-> "panic", keyring |-> self]
  ELSE [res |-> "Ok",
        keyring |-> insert_branches(self, into_single_descriptors(input), 1)]

\* KeyRing::add_descriptor on what the caller hands in:
\* expect("err: invalid descriptor") on the parse and
\* assert!(!descriptor.is_multipath()) panic, the registry being as it was
add_descriptor_unvalidated(self, keychain, input) ==
  IF ~into_wallet_descriptor_ok(input) \/ is_multipath(input)
    THEN [res |-> "panic", keyring |-> self]
  ELSE [res |-> "Ok", keyring |-> add_descriptor(self, keychain, input.d)]

\* KeyRing::remove_keychain: the keychain's binding is taken out of the
\* registry; the result tells whether there was one
remove_keychain(self, keychain) ==
  [res |-> IF keychain \in DOMAIN self.descriptors THEN "true" ELSE "false",
   keyring |-> [self EXCEPT !.descriptors =
                  [k \in DOMAIN @ \ {keychain} |-> @[k]]]]

\* KeyRing::initial_changeset
initial_changeset(self) ==
  [network |-> self.network, descriptors |-> self.descriptors]

\* KeyRing::from_changeset: None when the network is unset
KeyRing_from_changeset(changeset) ==
  IF changeset.network = None THEN NONE
  ELSE Some([network |-> changeset.network,
             descriptors |-> changeset.descriptors])

\* the registries the model builds: every network, every descriptor map
AllNetworks == {"Bitcoin", "Testnet", "Signet", "Regtest"}
KeyRings ==
  {[network |-> n, descriptors |-> m] :
     n \in AllNetworks, m \in Maps(Keychains, Descriptors)}

(***************************************************************************)
(* LocalChain (bdk_chain), as wallet.rs uses it: height -> hash, the       *)
(* genesis block at height 0.                                              *)
(***************************************************************************)
\* LocalChain::from_genesis_hash: the chain and its initial changeset
from_genesis_hash(hash) == [chain |-> (0 :> hash), changeset |-> (0 :> hash)]

\* LocalChain::from_changeset: an error (MissingGenesisError) without a genesis
LocalChain_from_changeset(changeset) ==
  IF 0 \notin DOMAIN changeset \/ changeset[0] = None
    THEN [tag |-> "Err"]
    ELSE Some([h \in {x \in DOMAIN changeset : changeset[x] # None} |->
                 changeset[h]])

\* applying a local_chain changeset to the chain's blocks
apply_chain_changeset(chain, cs) == persist_blocks(chain, cs)

RECURSIVE merge_chains(_, _, _, _)
\* merge_chains, walking both chains from height h down to 0.  st carries
\* the changeset so far, the heights of the original that an invalidation
\* would purge, and the connectivity flags of the walk (heights, -1: none).
merge_chains(orig, update, h, st) ==
  IF h < 0 \/ st.stop THEN
    IF ~st.prev_orig_was_invalidated /\ ~st.point_of_agreement_found
         /\ st.prev_orig >= 0
      THEN [tag |-> "CannotConnect"] ELSE Some(st.changeset)
  ELSE IF h \notin DOMAIN orig /\ h \notin DOMAIN update THEN
    merge_chains(orig, update, h - 1, st)
  ELSE IF h \notin DOMAIN orig THEN
    \* a block only the update has: it is added
    merge_chains(orig, update, h - 1,
      [st EXCEPT !.changeset = Insert(st.changeset, h, update[h]),
                 !.prev_update = h])
  ELSE IF h \notin DOMAIN update THEN
    \* a block only the original has: kept unless a lower block is replaced
    merge_chains(orig, update, h - 1,
      [st EXCEPT !.potentially_invalidated = @ \cup {h},
                 !.prev_orig_was_invalidated = FALSE,
                 !.prev_orig = h,
                 !.stop = \A x \in DOMAIN update : x > h])
  ELSE IF orig[h] = update[h] THEN
    \* the point of agreement
    IF ~st.prev_orig_was_invalidated /\ ~st.point_of_agreement_found
         /\ st.prev_orig >= 0 /\ st.prev_update >= 0
      THEN [tag |-> "CannotConnect"]
      ELSE merge_chains(orig, update, h - 1,
             [st EXCEPT !.point_of_agreement_found = TRUE,
                        !.prev_orig_was_invalidated = FALSE,
                        !.prev_orig = h, !.prev_update = h])
  ELSE
    \* the update replaces the block and purges the original blocks above it
    merge_chains(orig, update, h - 1,
      [st EXCEPT !.changeset =
                   Extend(Insert(st.changeset, h, update[h]),
                          [x \in st.potentially_invalidated |-> None]),
                 !.potentially_invalidated = {},
                 !.prev_orig_was_invalidated = TRUE,
                 !.prev_orig = h, !.prev_update = h])

\* LocalChain::apply_update: the changeset, or CannotConnect
LocalChain_apply_update(chain, update) ==
  merge_chains(chain, update, TopHeight,
    [changeset |-> EmptyMap, potentially_invalidated |-> {},
     prev_orig_was_invalidated |-> FALSE, point_of_agreement_found |-> FALSE,
     prev_orig |-> -1, prev_update |-> -1, stop |-> FALSE])

(***************************************************************************)
(* KeychainTxOutIndex (bdk_chain), as wallet.rs uses it.                   *)
(*   keychains     : keychain -> descriptor                                *)
(*   last_revealed : descriptor id -> last revealed derivation index       *)
(***************************************************************************)
KeychainTxOutIndex_new == [keychains |-> EmptyMap, last_revealed |-> EmptyMap]

\* Descriptor::has_wildcard: only a wildcard descriptor derives several indices
has_wildcard(d) == d = "dA"

\* the keychain a descriptor id is assigned to, or None
keychain_of(index, did) ==
  IF \E k \in DOMAIN index.keychains : descriptor_id(index.keychains[k]) = did
    THEN CHOOSE k \in DOMAIN index.keychains :
           descriptor_id(index.keychains[k]) = did
    ELSE None

\* KeychainTxOutIndex::insert_descriptor: Ok(true), Ok(false) or an error
insert_descriptor(index, keychain, descriptor) ==
  IF keychain \notin DOMAIN index.keychains
       /\ keychain_of(index, descriptor_id(descriptor)) = None
    THEN [res |-> "Ok(true)",
          index |-> [index EXCEPT
                       !.keychains = Insert(@, keychain, descriptor)]]
  ELSE IF keychain \in DOMAIN index.keychains
            /\ index.keychains[keychain] # descriptor
    THEN [res |-> "KeychainAlreadyAssigned", index |-> index]
  ELSE IF keychain_of(index, descriptor_id(descriptor)) \notin {None, keychain}
    THEN [res |-> "DescriptorAlreadyAssigned", index |-> index]
  ELSE [res |-> "Ok(false)", index |-> index]

\* a plausible slip: the loop runs over the registry's descriptors after
\* mem::take has emptied them
insert_descriptors_after_take(index, descriptors, i) == Some(index)

RECURSIVE insert_descriptors(_, _, _)
\* the loop of Wallet::new and Wallet::from_changeset over the descriptors in
\* key order: .expect(..) and assert!(_inserted) turn any other result of
\* insert_descriptor into a panic
insert_descriptors(index, descriptors, i) ==
  IF i > Len(KeyOrder) THEN Some(index)
  ELSE IF KeyOrder[i] \notin DOMAIN descriptors
    THEN insert_descriptors(index, descriptors, i + 1)
  ELSE IF insert_descriptor(index, KeyOrder[i], descriptors[KeyOrder[i]]).res
            # "Ok(true)"
    THEN Panic
  ELSE insert_descriptors(
         insert_descriptor(index, KeyOrder[i], descriptors[KeyOrder[i]]).index,
         descriptors, i + 1)

\* a plausible slip: the last revealed index is handed out again instead of
\* the one after it
next_index_repeating(index, keychain) ==
  IF keychain \notin DOMAIN index.keychains THEN NONE
  ELSE IF descriptor_id(index.keychains[keychain]) \notin DOMAIN index.last_revealed
    THEN [tag |-> "Some", i |-> 0, new |-> TRUE]
  ELSE [tag |-> "Some",
        i |-> index.last_revealed[descriptor_id(index.keychains[keychain])],
        new |-> FALSE]

\* KeychainTxOutIndex::next_index: the index a reveal would give, and whether
\* it is new
next_index(index, keychain) ==
  IF keychain \notin DOMAIN index.keychains THEN NONE
  ELSE IF descriptor_id(index.keychains[keychain]) \notin DOMAIN index.last_revealed
    THEN [tag |-> "Some", i |-> 0, new |-> TRUE]
  ELSE IF ~has_wildcard(index.keychains[keychain])
    THEN [tag |-> "Some", i |-> 0, new |-> FALSE]
  ELSE [tag |-> "Some",
        i |-> index.last_revealed[descriptor_id(index.keychains[keychain])] + 1,
        new |-> TRUE]

\* KeychainTxOutIndex::reveal_next_spk: None for an unknown keychain, else the
\* index revealed, the index changeset and the index afterwards
reveal_next_spk(index, keychain) ==
  IF next_index(index, keychain).tag = "None" THEN NONE
  ELSE IF next_index(index, keychain).new
    THEN [tag |-> "Some", i |-> next_index(index, keychain).i,
          changeset |-> (descriptor_id(index.keychains[keychain])
                           :> next_index(index, keychain).i),
          index |-> [index EXCEPT !.last_revealed =
                       Insert(@, descriptor_id(index.keychains[keychain]),
                              next_index(index, keychain).i)]]
  ELSE [tag |-> "Some", i |-> next_index(index, keychain).i,
        changeset |-> EmptyMap, index |-> index]

\* a plausible slip: one index is revealed instead of all up to the target
reveal_to_target_one_step(index, keychain, target) ==
  IF keychain \notin DOMAIN index.keychains THEN -1
  ELSE IF descriptor_id(index.keychains[keychain]) \notin DOMAIN index.last_revealed
    THEN 0
  ELSE IF has_wildcard(index.keychains[keychain])
            /\ target > index.last_revealed[descriptor_id(index.keychains[keychain])]
    THEN index.last_revealed[descriptor_id(index.keychains[keychain])] + 1
  ELSE -1

\* KeychainTxOutIndex::reveal_to_target for one keychain: the last revealed
\* index afterwards, or -1 when nothing is revealed
reveal_to_target(index, keychain, target) ==
  IF keychain \notin DOMAIN index.keychains THEN -1
  ELSE IF descriptor_id(index.keychains[keychain]) \notin DOMAIN index.last_revealed
    THEN (IF has_wildcard(index.keychains[keychain]) THEN target ELSE 0)
  ELSE IF has_wildcard(index.keychains[keychain])
            /\ target > index.last_revealed[descriptor_id(index.keychains[keychain])]
    THEN target
  ELSE -1

\* KeychainTxOutIndex::reveal_to_target_multi: the index changeset
reveal_to_target_multi(index, targets) ==
  LET hit == {k \in DOMAIN targets : reveal_to_target(index, k, targets[k]) >= 0}
  IN [d \in {descriptor_id(index.keychains[k]) : k \in hit} |->
        reveal_to_target(index, keychain_of(index, d),
                         targets[keychain_of(index, d)])]

\* KeychainTxOutIndex::apply_changeset: last revealed indices only move up
index_apply_changeset(index, cs) ==
  [index EXCEPT !.last_revealed = indexer_merge(@, cs)]

(***************************************************************************)
(* The transactions an update may bring: each pays one output to the       *)
(* script of a descriptor at a derivation index; "idX" is the descriptor   *)
(* of somebody else.  A TxUpdate, the graph and the graph's changeset are  *)
(* sets of records: "t1" says that transaction t1 is there (TxUpdate::txs),*)
(* "s1" that t1 was seen in the mempool (TxUpdate::seen_ats); the updates  *)
(* carry no anchors.                                                       *)
(***************************************************************************)
tx_output(t) ==
  CASE t = "t1" -> [did |-> "idA", index |-> 0, value |-> 1000]
    [] t = "t2" -> [did |-> "idB", index |-> 0, value |-> 700]
    [] t = "t3" -> [did |-> "idA", index |-> 1, value |-> 100]
    [] t = "t4" -> [did |-> "idB", index |-> 0, value |-> 1500]
    [] t = "t5" -> [did |-> "idX", index |-> 0, value |-> 900]

\* the transaction whose output the input of t spends, or None: t5 spends
\* the output of t1
tx_input(t) == IF t = "t5" THEN "t1" ELSE None

\* the record that t was seen in the mempool
seen_at(t) ==
  CASE t = "t1" -> "s1" [] t = "t2" -> "s2" [] t = "t3" -> "s3"
    [] t = "t4" -> "s4" [] t = "t5" -> "s5"

\* TxGraph::full_txs: the transactions among the records of a graph
full_txs(graph) == graph \cap {"t1", "t2", "t3", "t4", "t5"}

\* a transaction together with the record that it was seen
seen(txs) == txs \cup {seen_at(t) : t \in txs}

\* the index changeset of scanning txs: an output found at an index above
\* the last revealed one reveals up to it
index_scan(index, txs) ==
  LET found == {t \in full_txs(txs) :
                  /\ keychain_of(index, tx_output(t).did) # None
                  /\ (tx_output(t).did \in DOMAIN index.last_revealed
                        => tx_output(t).index
                             > index.last_revealed[tx_output(t).did])}
  IN [d \in {tx_output(t).did : t \in found} |->
        CHOOSE i \in {tx_output(t).index : t \in found} :
          /\ \E t \in found : tx_output(t).did = d /\ tx_output(t).index = i
          /\ \A t \in found : tx_output(t).did = d => tx_output(t).index <= i]

(***************************************************************************)
(* Wallet (wallet.rs): keyring, chain, tx_graph (index + graph), stage.    *)
(***************************************************************************)
\* Wallet::new: the wallet, or a panic when a descriptor cannot be inserted
Wallet_new(keyring) ==
  LET g == from_genesis_hash(genesis_hash(keyring.network))
      index == insert_descriptors(KeychainTxOutIndex_new, keyring.descriptors, 1)
  IN IF index.tag = "panic" THEN Panic
     ELSE Some([keyring |-> [keyring EXCEPT !.descriptors = EmptyMap],
                chain |-> g.chain,
                tx_graph |-> [index |-> index.v, txs |-> {}],
                stage |-> [keyring |-> initial_changeset(keyring),
                           local_chain |-> g.changeset,
                           tx_graph |-> {},
                           indexer |-> EmptyMap]])

\* a plausible slip: the index is built from the descriptors alone, the
\* persisted last revealed indices being left out
Wallet_from_changeset_fresh_index(changeset) ==
  IF is_empty(changeset) THEN NONE
  ELSE IF LocalChain_from_changeset(changeset.local_chain).tag = "Err"
    THEN Panic             \* .expect("err: Missing genesis")
  ELSE IF KeyRing_from_changeset(changeset.keyring).tag = "None" THEN NONE
  ELSE
    LET index == insert_descriptors(KeychainTxOutIndex_new,
                                    changeset.keyring.descriptors, 1)
    IN IF index.tag = "panic" THEN Panic
       ELSE Some([keyring |-> [network |-> changeset.keyring.network,
                               descriptors |-> EmptyMap],
                  chain |-> LocalChain_from_changeset(changeset.local_chain).v,
                  tx_graph |->
                    [index |-> index_apply_changeset(index.v,
                                 index_scan(index.v, changeset.tx_graph)),
                     txs |-> changeset.tx_graph],
                  stage |-> ChangeSet_default])

\* Wallet::from_changeset: None, the wallet, or a panic
Wallet_from_changeset(changeset) ==
  IF is_empty(changeset) THEN NONE
  ELSE IF LocalChain_from_changeset(changeset.local_chain).tag = "Err"
    THEN Panic             \* .expect("err: Missing genesis")
  ELSE IF KeyRing_from_changeset(changeset.keyring).tag = "None" THEN NONE
  ELSE
    LET index == insert_descriptors(
                   index_apply_changeset(KeychainTxOutIndex_new,
                                         changeset.indexer),
                   changeset.keyring.descriptors, 1)
    IN IF index.tag = "panic" THEN Panic
       ELSE Some([keyring |-> [network |-> changeset.keyring.network,
                               descriptors |-> EmptyMap],
                  chain |-> LocalChain_from_changeset(changeset.local_chain).v,
                  tx_graph |->
                    [index |-> index_apply_changeset(index.v,
                                 index_scan(index.v, changeset.tx_graph)),
                     txs |-> changeset.tx_graph],
                  stage |-> ChangeSet_default])

\* a plausible slip: the delta replaces the stage
stage_replacing(self, changeset) == [self EXCEPT !.stage = changeset]

\* Wallet::stage
stage(self, changeset) == [self EXCEPT !.stage = merge(self.stage, changeset)]

\* Wallet::staged: None when the stage is empty
staged(self) == IF is_empty(self.stage) THEN NONE ELSE Some(self.stage)

\* a plausible slip: an unknown keychain falls back to the first keychain of
\* the index, as a default keychain would
reveal_next_address_defaulting(self, keychain) ==
  LET ks == DOMAIN self.tx_graph.index.keychains
      k == IF keychain \in ks \/ ks = {} THEN keychain
           ELSE CHOOSE x \in ks : TRUE
      r == reveal_next_spk(self.tx_graph.index, k)
  IN IF r.tag = "None" THEN NONE
     ELSE [tag |-> "Some", i |-> r.i,
           wallet |-> stage([self EXCEPT !.tx_graph.index = r.index],
                            from_indexer(r.changeset))]

\* Wallet::reveal_next_address: None for an unknown keychain, else the
\* revealed index and the wallet afterwards
reveal_next_address(self, keychain) ==
  LET r == reveal_next_spk(self.tx_graph.index, keychain)
  IN IF r.tag = "None" THEN NONE
     ELSE [tag |-> "Some", i |-> r.i,
           wallet |-> stage([self EXCEPT !.tx_graph.index = r.index],
                            from_indexer(r.changeset))]

\* K::default(): the keychain identifier a default-constructed K equals
Keychain_default == "idA"

\* Wallet::reveal_next_default_address_unwrap: expect("invalid keychain") on
\* what reveal_next_address returns for K::default()
reveal_next_default_address_unwrap(self) ==
  LET r == reveal_next_address(self, Keychain_default)
  IN IF r.tag = "None" THEN Panic ELSE r

\* Wallet::apply_update: the wallet afterwards, or a panic on a chain update
\* that does not connect
apply_update(self, update) ==
  LET c == IF update.chain.tag = "None" THEN Some(EmptyMap)
           ELSE LocalChain_apply_update(self.chain, update.chain.v)
  IN IF c.tag = "CannotConnect" THEN Panic
     ELSE
       LET cs1 == c.v
           cs2 == reveal_to_target_multi(self.tx_graph.index,
                                         update.last_active_indices)
           index2 == index_apply_changeset(self.tx_graph.index, cs2)
           newtxs == update.tx_update \ self.tx_graph.txs
           cs3 == index_scan(index2, newtxs)
           changeset ==
             merge(merge(merge(ChangeSet_default, from_local_chain(cs1)),
                         from_indexer(cs2)),
                   from_indexed_tx_graph(newtxs, cs3))
       IN Some(stage([self EXCEPT
                        !.chain = apply_chain_changeset(@, cs1),
                        !.tx_graph = [index |-> index_apply_changeset(index2, cs3),
                                      txs |-> @.txs \cup update.tx_update]],
                     changeset))

\* The statements of Wallet::apply_update one at a time, on the wallet and
\* the local changeset the function builds.
\* a plausible slip: the chain delta is staged as soon as it is known
apply_update_chain_staging(self, changeset, update) ==
  IF update.chain.tag = "None"
    THEN [tag |-> "Ok", self |-> self, changeset |-> changeset]
  ELSE
    LET c == LocalChain_apply_update(self.chain, update.chain.v)
    IN IF c.tag = "CannotConnect"
         THEN [tag |-> "panic", self |-> self, changeset |-> changeset]
         ELSE [tag |-> "Ok",
               self |-> stage([self EXCEPT
                                 !.chain = apply_chain_changeset(@, c.v)],
                              from_local_chain(c.v)),
               changeset |-> merge(changeset, from_local_chain(c.v))]

\* `if let Some(tip) = chain { changeset.merge(self.chain.apply_update(tip)
\* .expect(..).into()) }`: a tip that does not connect panics, the chain
\* being as it was
apply_update_chain(self, changeset, update) ==
  IF update.chain.tag = "None"
    THEN [tag |-> "Ok", self |-> self, changeset |-> changeset]
  ELSE
    LET c == LocalChain_apply_update(self.chain, update.chain.v)
    IN IF c.tag = "CannotConnect"
         THEN [tag |-> "panic", self |-> self, changeset |-> changeset]
         ELSE [tag |-> "Ok",
               self |-> [self EXCEPT !.chain = apply_chain_changeset(@, c.v)],
               changeset |-> merge(changeset, from_local_chain(c.v))]

\* `changeset.merge(self.tx_graph.index.reveal_to_target_multi(..).into())`
apply_update_index(self, changeset, update) ==
  LET cs2 == reveal_to_target_multi(self.tx_graph.index,
                                    update.last_active_indices)
  IN [tag |-> "Ok",
      self |-> [self EXCEPT !.tx_graph.index = index_apply_changeset(@, cs2)],
      changeset |-> merge(changeset, from_indexer(cs2))]

\* `changeset.merge(self.tx_graph.apply_update(tx_update).into())`
apply_update_graph(self, changeset, update) ==
  LET newtxs == update.tx_update \ self.tx_graph.txs
      cs3 == index_scan(self.tx_graph.index, newtxs)
  IN [tag |-> "Ok",
      self |-> [self EXCEPT
                  !.tx_graph = [index |-> index_apply_changeset(@.index, cs3),
                                txs |-> @.txs \cup update.tx_update]],
      changeset |-> merge(changeset, from_indexed_tx_graph(newtxs, cs3))]

\* Wallet::keychains: the (keychain, descriptor) pairs of the index
keychains(self) == self.tx_graph.index.keychains

\* Wallet::staged_changeset
staged_changeset(self) == IF is_empty(self.stage) THEN NONE ELSE Some(self.stage)

(***************************************************************************)
(* TxBuilder (tx_builder.rs).  A builder is its configuration:             *)
(*   recipients (the amounts, in order), fee_rate (Some(sat/vb) or NONE),  *)
(*   preferred_keychain (or None), drain_wallet.                           *)
(***************************************************************************)
\* the dust floor of create_psbt
DustThreshold == 546

TxOrder == <<"t1", "t2", "t3", "t4", "t5">>
KeyRank(k) == CHOOSE i \in 1..Len(KeyOrder) : KeyOrder[i] = k
TxRank(t) == CHOOSE i \in 1..Len(TxOrder) : TxOrder[i] = t

\* the place of an indexed outpoint in index.outpoints(), ordered by
\* ((keychain, index), outpoint)
outpoint_key(index, t) ==
  KeyRank(keychain_of(index, tx_output(t).did)) * 10000
    + tx_output(t).index * 100 + TxRank(t)

RECURSIVE outpoints_seq(_, _)
outpoints_seq(index, S) ==
  IF S = {} THEN <<>>
  ELSE LET m == CHOOSE t \in S :
                  \A u \in S : outpoint_key(index, t) <= outpoint_key(index, u)
       IN <<m>> \o outpoints_seq(index, S \ {m})

\* a transaction is canonical when it was seen in the mempool, or when a
\* transaction that was seen spends its output
is_canonical(graph, t) ==
  \/ seen_at(t) \in graph
  \/ \E u \in full_txs(graph) : tx_input(u) = t /\ seen_at(u) \in graph

\* filter_chain_unspents(..).next().is_some(): the output of t belongs to a
\* canonical transaction and no canonical transaction spends it
is_unspent(self, t) ==
  LET graph == self.tx_graph.txs
  IN /\ is_canonical(graph, t)
     /\ ~\E u \in full_txs(graph) : tx_input(u) = t /\ is_canonical(graph, u)

\* a plausible slip: when the preferred keychain holds nothing, the coins of
\* every keychain are offered
get_available_utxos_falling_back(self, b) ==
  LET index == self.tx_graph.index
      owned == {t \in full_txs(self.tx_graph.txs) :
                  /\ keychain_of(index, tx_output(t).did) # None
                  /\ is_unspent(self, t)}
      preferred == {t \in owned :
                      keychain_of(index, tx_output(t).did)
                        = b.preferred_keychain}
      mine == IF b.preferred_keychain = None \/ preferred = {} THEN owned
              ELSE preferred
      order == outpoints_seq(index, mine)
  IN [i \in 1..Len(order) |->
        [outpoint |-> order[i],
         value |-> tx_output(order[i]).value,
         keychain |-> keychain_of(index, tx_output(order[i]).did),
         derivation_index |-> tx_output(order[i]).index]]

\* a plausible slip: the preferred keychain is not looked at
get_available_utxos_unfiltered(self, b) ==
  LET index == self.tx_graph.index
      mine == {t \in full_txs(self.tx_graph.txs) :
                 /\ keychain_of(index, tx_output(t).did) # None
                 /\ is_unspent(self, t)}
      order == outpoints_seq(index, mine)
  IN [i \in 1..Len(order) |->
        [outpoint |-> order[i],
         value |-> tx_output(order[i]).value,
         keychain |-> keychain_of(index, tx_output(order[i]).did),
         derivation_index |-> tx_output(order[i]).index]]

\* TxBuilder::get_available_utxos
get_available_utxos(self, b) ==
  LET index == self.tx_graph.index
      mine == {t \in full_txs(self.tx_graph.txs) :
                 /\ keychain_of(index, tx_output(t).did) # None
                 /\ (b.preferred_keychain # None =>
                       keychain_of(index, tx_output(t).did) = b.preferred_keychain)
                 /\ is_unspent(self, t)}
      order == outpoints_seq(index, mine)
  IN [i \in 1..Len(order) |->
        [outpoint |-> order[i],
         value |-> tx_output(order[i]).value,
         keychain |-> keychain_of(index, tx_output(order[i]).did),
         derivation_index |-> tx_output(order[i]).index]]

RECURSIVE sum_values(_)
sum_values(utxos) ==
  IF Len(utxos) = 0 THEN 0 ELSE Head(utxos).value + sum_values(Tail(utxos))

RECURSIVE sum_amounts(_)
sum_amounts(recipients) ==
  IF Len(recipients) = 0 THEN 0
  ELSE Head(recipients) + sum_amounts(Tail(recipients))

\* a plausible slip: the candidates are taken in the index's order
sort_by_value_unsorted(utxos) == utxos

RECURSIVE sort_by_value(_)
\* utxos.sort_by(|a, b| b.value.cmp(&a.value)): stable, largest first
sort_by_value(utxos) ==
  IF Len(utxos) = 0 THEN <<>>
  ELSE LET i == CHOOSE i \in 1..Len(utxos) :
                  /\ \A j \in 1..Len(utxos) : utxos[j].value <= utxos[i].value
                  /\ \A j \in 1..(i - 1) : utxos[j].value < utxos[i].value
       IN <<utxos[i]>>
            \o sort_by_value([j \in 1..(Len(utxos) - 1) |->
                                IF j < i THEN utxos[j] ELSE utxos[j + 1]])

\* TxBuilder::estimate_tx_size
estimate_tx_size(inputs, outputs) == 10 + inputs * 148 + outputs * 34

\* A fee rate is its number of satoshis per virtual byte; FeeRate::MAX, which
\* is beyond every integer the model counts with, is written as -1.
FeeRate_MAX == -1

\* FeeRate::fee_vb(..).unwrap_or(Amount::ZERO): rate times size, and zero
\* when the product overflows u64, which among the rates of the model it
\* does for FeeRate::MAX and every size
fee_vb(fee_rate, vb) == IF fee_rate = FeeRate_MAX THEN 0 ELSE fee_rate * vb

\* a plausible slip: the break is taken after the first coin whatever the total
select_loop_breaking_early(utxos, n, target, fee_rate, outputs) == n

RECURSIVE select_loop(_, _, _, _, _)
\* the for loop of select_coins: how many of the sorted utxos are taken
select_loop(utxos, n, target, fee_rate, outputs) ==
  IF n >= Len(utxos) THEN Len(utxos)
  ELSE IF sum_values(SubSeq(utxos, 1, n))
            >= target + fee_vb(fee_rate, estimate_tx_size(n, outputs))
    THEN n
  ELSE select_loop(utxos, n + 1, target, fee_rate, outputs)

\* TxBuilder::select_coins
select_coins(b, utxos, fee_rate) ==
  IF Len(utxos) = 0 THEN [res |-> "NoUtxos"]
  ELSE IF b.drain_wallet THEN [res |-> "Ok", selected |-> sort_by_value(utxos)]
  ELSE
    LET sorted == sort_by_value(utxos)
        target == sum_amounts(b.recipients)
        n == select_loop(sorted, 1, target, fee_rate, Len(b.recipients))
        selected == SubSeq(sorted, 1, n)
        final_fee == fee_vb(fee_rate, estimate_tx_size(n, Len(b.recipients)))
    IN IF sum_values(selected) < target + final_fee
         THEN [res |-> "InsufficientFunds", required |-> target + final_fee,
               available |-> sum_values(selected)]
         ELSE [res |-> "Ok", selected |-> selected]

\* a plausible slip: the change address is revealed before the dust test
create_psbt_revealing_first(self, b, selected_utxos, fee_rate) ==
  LET selected_value == sum_values(selected_utxos)
      target_value == sum_amounts(b.recipients)
      estimated_fee == fee_vb(fee_rate,
                         estimate_tx_size(Len(selected_utxos), Len(b.recipients)))
  IN IF b.drain_wallet THEN
       IF selected_value < estimated_fee
         \* Amount subtraction panics below zero
         THEN [res |-> "panic", wallet |-> self]
         ELSE [res |-> "Ok", wallet |-> self, inputs |-> selected_utxos,
               outputs |-> IF Len(b.recipients) = 0 THEN <<>>
                           ELSE <<selected_value - estimated_fee>>,
               change |-> FALSE,
               sent |-> selected_value - estimated_fee, fee |-> estimated_fee]
     ELSE
       LET change == selected_value - target_value - estimated_fee
           r == reveal_next_address(self, selected_utxos[1].keychain)
       IN IF change > DustThreshold /\ r.tag = "Some"
            THEN [res |-> "Ok", wallet |-> r.wallet, inputs |-> selected_utxos,
                  outputs |-> b.recipients \o <<change>>, change |-> TRUE,
                  sent |-> target_value, fee |-> estimated_fee]
            ELSE [res |-> "Ok",
                  wallet |-> IF r.tag = "Some" THEN r.wallet ELSE self,
                  inputs |-> selected_utxos,
                  outputs |-> b.recipients, change |-> FALSE,
                  sent |-> target_value, fee |-> estimated_fee]

\* TxBuilder::create_psbt
create_psbt(self, b, selected_utxos, fee_rate) ==
  LET selected_value == sum_values(selected_utxos)
      target_value == sum_amounts(b.recipients)
      estimated_fee == fee_vb(fee_rate,
                         estimate_tx_size(Len(selected_utxos), Len(b.recipients)))
  IN IF b.drain_wallet THEN
       IF selected_value < estimated_fee
         \* Amount subtraction panics below zero
         THEN [res |-> "panic", wallet |-> self]
         ELSE [res |-> "Ok", wallet |-> self, inputs |-> selected_utxos,
               outputs |-> IF Len(b.recipients) = 0 THEN <<>>
                           ELSE <<selected_value - estimated_fee>>,
               change |-> FALSE,
               sent |-> selected_value - estimated_fee, fee |-> estimated_fee]
     ELSE
       LET change == selected_value - target_value - estimated_fee
           r == reveal_next_address(self, selected_utxos[1].keychain)
       IN IF change > DustThreshold /\ r.tag = "Some"
            THEN [res |-> "Ok", wallet |-> r.wallet, inputs |-> selected_utxos,
                  outputs |-> b.recipients \o <<change>>, change |-> TRUE,
                  sent |-> target_value, fee |-> estimated_fee]
            ELSE [res |-> "Ok", wallet |-> self, inputs |-> selected_utxos,
                  outputs |-> b.recipients, change |-> FALSE,
                  sent |-> target_value, fee |-> estimated_fee]

\* a plausible slip: the candidates are enumerated and selected before the
\* recipients are looked at
finish_selecting_first(self, b) ==
  LET available_utxos == get_available_utxos(self, b)
      fee_rate == IF b.fee_rate.tag = "None" THEN 1 ELSE b.fee_rate.v
      sel == select_coins(b, available_utxos, fee_rate)
  IN IF sel.res = "NoUtxos" THEN [res |-> "NoUtxos", wallet |-> self]
     ELSE IF Len(b.recipients) = 0 /\ ~b.drain_wallet
       THEN [res |-> "NoRecipients", wallet |-> self]
     ELSE IF sel.res = "InsufficientFunds"
       THEN [res |-> "InsufficientFunds", wallet |-> self,
             required |-> sel.required, available |-> sel.available]
     ELSE create_psbt(self, b, sel.selected, fee_rate)

\* TxBuilder::finish
finish(self, b) ==
  IF Len(b.recipients) = 0 /\ ~b.drain_wallet
    THEN [res |-> "NoRecipients", wallet |-> self]
  ELSE
    LET available_utxos == get_available_utxos(self, b)
        fee_rate == IF b.fee_rate.tag = "None" THEN 1 ELSE b.fee_rate.v
        sel == select_coins(b, available_utxos, fee_rate)
    IN IF sel.res = "NoUtxos" THEN [res |-> "NoUtxos", wallet |-> self]
       ELSE IF sel.res = "InsufficientFunds"
         THEN [res |-> "InsufficientFunds", wallet |-> self,
               required |-> sel.required, available |-> sel.available]
       ELSE create_psbt(self, b, sel.selected, fee_rate)

(***************************************************************************)
(* Wallet::persist_to_sqlite and Wallet::from_sqlite over a connection.    *)
(* A transaction has the committed store (base) and its own view; commit   *)
(* publishes the view, dropping the transaction rolls back to the base.    *)
(***************************************************************************)
transaction(conn) == [base |-> conn, view |-> conn]
commit(tx) == tx.view
\* a plausible slip: the statements run outside a transaction
rollback_keeping_writes(tx) == tx.view
\* Drop of a transaction that was not committed
rollback(tx) == tx.base

\* where a persist call meets an error: nowhere, opening the transaction,
\* the n-th statement, or the commit
FailPoints ==
  {[at |-> "none", n |-> 0], [at |-> "begin", n |-> 0], [at |-> "commit", n |-> 0]}
    \cup {[at |-> "write", n |-> n] : n \in 1..(Len(KeyOrder) + 4)}

\* a plausible slip: the stage is cleared before its value is read
take_after_clear(self) ==
  [ret |-> staged([self EXCEPT !.stage = ChangeSet_default]),
   wallet |-> [self EXCEPT !.stage = ChangeSet_default]]

\* Merge::take on the stage: the stage's value, the stage left empty
take(self) ==
  [ret |-> staged(self), wallet |-> [self EXCEPT !.stage = ChangeSet_default]]

\* a plausible slip: the stage is drained although the write failed
persist_error_draining(self, tx) ==
  [res |-> "Err", ret |-> NONE,
   wallet |-> [self EXCEPT !.stage = ChangeSet_default], conn |-> rollback(tx)]

\* `?` on a failed statement or commit: the error is returned, the
\* transaction is dropped, the stage is not touched
persist_error(self, tx) ==
  [res |-> "Err", ret |-> NONE, wallet |-> self, conn |-> rollback(tx)]

\* Wallet::persist_to_sqlite
Wallet_persist_to_sqlite(self, conn, fail) ==
  IF fail.at = "begin"
    \* conn.transaction()? fails: nothing was started
    THEN [res |-> "Err", ret |-> NONE, wallet |-> self, conn |-> conn]
  ELSE IF staged_changeset(self).tag = "None"
    THEN [res |-> "Ok", ret |-> NONE, wallet |-> self,
          conn |-> rollback(transaction(conn))]
  ELSE
    LET ws == persist_writes(self.stage)
        tx == transaction(conn)
    IN IF ~conn.tables
         \* prepare_cached fails: the tables do not exist
         THEN persist_error(self, tx)
       ELSE IF fail.at = "write" /\ fail.n <= Len(ws)
         \* the n-th statement fails after the first n - 1 were executed
         THEN persist_error(self,
                [tx EXCEPT !.view = execute_all(@, ws, fail.n - 1)])
       ELSE IF fail.at = "commit"
         THEN persist_error(self,
                [tx EXCEPT !.view = persist_to_sqlite(self.stage, @)])
       ELSE [res |-> "Ok",
             ret |-> take(self).ret,
             wallet |-> take(self).wallet,
             conn |-> commit([tx EXCEPT !.view = persist_to_sqlite(self.stage, @)])]

\* where a from_sqlite call meets an error: nowhere, opening the
\* transaction, creating the tables and reading them, or the commit
LoadFailPoints == {"none", "begin", "initialize", "commit"}

\* Wallet::from_sqlite: the connection afterwards and an error, None, a
\* wallet or a panic
Wallet_from_sqlite(conn, fail) ==
  IF fail = "begin"
    \* conn.transaction()? fails: nothing was started
    THEN [res |-> "Err", conn |-> conn, wallet |-> NONE]
  ELSE
    LET tx == [transaction(conn) EXCEPT !.view = init_sqlite_tables(@)]
        changeset == initialize(tx.view)
    IN IF fail \in {"initialize", "commit"}
         \* `?` on ChangeSet::initialize or on tx.commit(): the transaction
         \* is dropped and the tables it created go with it
         THEN [res |-> "Err", conn |-> rollback(tx), wallet |-> NONE]
       ELSE [res |-> "Ok", conn |-> commit(tx),
             wallet |-> IF changeset.tag = "None" THEN NONE
                        ELSE Wallet_from_changeset(changeset.v)]

(***************************************************************************)
(* State.                                                                  *)
(*   wallet, store, last : the wallet process (NONE: no wallet), the       *)
(*                         SQLite file, the outcome of the last call (Spec)*)
(*   own                 : whether the wallet was loaded from the store or *)
(*                         built while the store held nothing, so that the *)
(*                         store holds no other wallet's records (Spec)    *)
(*   cs_a, cs_b, merged, mpc : two changesets being merged (SpecMerge)     *)
(*   pa, pb, pdb, plog   : two changesets persisted into a store           *)
(*                         (SpecPersist)                                   *)
(*   reg, rt_rest, rt_db, rt_loaded, rt_pc : a registry's round trip       *)
(*                         through a store (SpecRoundTrip)                 *)
(*   rl_cs, rl_res       : a changeset given to Wallet::from_changeset     *)
(*                         (SpecReload)                                    *)
(*   kr, kprev, kcall,   : a registry, the registry before the last call,  *)
(*   kret                  the call and what it returned (SpecKeyRing)     *)
(*   uw, ustart, uupd,   : a wallet inside apply_update: the wallet, the   *)
(*   ucs, upc              wallet when the call began, the update, the     *)
(*                         local changeset and the statement reached       *)
(*                         (SpecUpdate)                                    *)
(***************************************************************************)
VARIABLES wallet, store, last, own,
          cs_a, cs_b, merged, mpc,
          pa, pb, pdb, plog,
          reg, rt_rest, rt_db, rt_loaded, rt_pc,
          rl_cs, rl_res,
          bk, bw, bu, bb, bres, bpc,
          kr, kprev, kcall, kret,
          uw, ustart, uupd, ucs, upc

wvars == <<wallet, store, last, own>>
mvars == <<cs_a, cs_b, merged, mpc>>
pvars == <<pa, pb, pdb, plog>>
rtvars == <<reg, rt_rest, rt_db, rt_loaded, rt_pc>>
rlvars == <<rl_cs, rl_res>>
bvars == <<bk, bw, bu, bb, bres, bpc>>
kvars == <<kr, kprev, kcall, kret>>
uvars == <<uw, ustart, uupd, ucs, upc>>
vars == <<wallet, store, last, own, cs_a, cs_b, merged, mpc, pa, pb, pdb, plog,
          reg, rt_rest, rt_db, rt_loaded, rt_pc, rl_cs, rl_res,
          bk, bw, bu, bb, bres, bpc, kr, kprev, kcall, kret,
          uw, ustart, uupd, ucs, upc>>

WalletIdle ==
  /\ wallet = NONE /\ store = EmptyStore
  /\ last = [op |-> "start", res |-> "Ok", ret |-> NONE]
  /\ own = TRUE
MergeIdle ==
  /\ cs_a = ChangeSet_default /\ cs_b = ChangeSet_default
  /\ merged = ChangeSet_default /\ mpc = "idle"
PersistIdle ==
  /\ pa = ChangeSet_default /\ pb = ChangeSet_default
  /\ pdb = EmptyStore /\ plog = <<>>
RoundTripIdle ==
  /\ reg = KeyRing_new("Bitcoin") /\ rt_rest = ChangeSet_default
  /\ rt_db = EmptyStore /\ rt_loaded = NONE /\ rt_pc = "idle"
ReloadIdle == rl_cs = ChangeSet_default /\ rl_res = [tag |-> "idle"]
KeyRingIdle ==
  /\ kr = KeyRing_new("Bitcoin") /\ kprev = KeyRing_new("Bitcoin")
  /\ kcall = [op |-> "idle"] /\ kret = "idle"
UpdateIdle ==
  /\ uw = NONE /\ ustart = NONE
  /\ uupd = [chain |-> NONE, tx_update |-> {}, last_active_indices |-> EmptyMap]
  /\ ucs = ChangeSet_default /\ upc = "idle"
BuildIdle ==
  /\ bk = KeyRing_new("Bitcoin") /\ bw = NONE
  /\ bu = [chain |-> NONE, tx_update |-> {}, last_active_indices |-> EmptyMap]
  /\ bb = [recipients |-> <<>>, fee_rate |-> NONE, preferred_keychain |-> None,
           drain_wallet |-> FALSE]
  /\ bres = [res |-> "idle"] /\ bpc = "idle"

(***************************************************************************)
(* Spec: one wallet process at a time over one store.                      *)
(***************************************************************************)
\* the chain tips an update may carry: checkpoints from the genesis block
\* up, and single blocks that name no block of the wallet's chain
ChainUpdates ==
  {u \in Maps(Heights, Hashes) :
     /\ DOMAIN u # {}
     /\ \A h \in DOMAIN u : (h = 0) <=> (u[h] = "g")
     /\ 0 \notin DOMAIN u => Cardinality(DOMAIN u) = 1}

\* the last-active-index maps an update may carry
ActiveIndices ==
  {EmptyMap} \cup {k :> i : k \in Keychains, i \in 0..MaxIndex}
    \cup {[k \in Keychains |-> i] : i \in 0..MaxIndex}

\* updates: a new tip alone, transactions (seen in the mempool or not) and
\* active indices alone, and all three parts at once
Updates ==
  {[chain |-> Some(u), tx_update |-> {}, last_active_indices |-> EmptyMap] :
     u \in ChainUpdates}
  \cup
  {[chain |-> NONE, tx_update |-> t, last_active_indices |-> m] :
     t \in {{}, {"t1"}, seen({"t1"}), seen({"t2"})}, m \in ActiveIndices}
  \cup
  {[chain |-> Some(u), tx_update |-> seen(TxIds),
    last_active_indices |-> [k \in Keychains |-> MaxIndex]] :
     u \in {(0 :> "g") @@ (1 :> "a"), 1 :> "b"}}

\* the updates Spec applies: a tip that extends the chain and one that does
\* not connect, a transaction with the highest active indices, and all
\* three parts at once
WalletUpdates ==
  {u \in Updates :
     \/ /\ u.chain.tag = "Some" /\ 1 \in DOMAIN u.chain.v
        /\ (0 \in DOMAIN u.chain.v) = (u.chain.v[1] = "a")
     \/ /\ u.chain.tag = "None"
        /\ u.tx_update \in {{}, seen({"t1"})}
        /\ u.last_active_indices
             \in {EmptyMap, "idA" :> MaxIndex, [k \in Keychains |-> MaxIndex]}}

\* the builders Spec runs: one recipient, drain or not
Builders ==
  {[recipients |-> r, fee_rate |-> NONE, preferred_keychain |-> None,
    drain_wallet |-> d] :
     r \in {<<200>>}, d \in BOOLEAN}

\* the registries Spec builds a wallet from: empty, keyed by descriptor id,
\* keyed by another id, and one descriptor under two keychains
NewKeyRings ==
  {[network |-> "Signet", descriptors |-> m] :
     m \in {EmptyMap, "idA" :> "dA", ("idA" :> "dA") @@ ("idB" :> "dB"),
            "idB" :> "dA", ("idA" :> "dA") @@ ("idB" :> "dA")}}

Init ==
  /\ WalletIdle /\ MergeIdle /\ PersistIdle /\ RoundTripIdle
  /\ ReloadIdle /\ BuildIdle /\ KeyRingIdle /\ UpdateIdle

\* the application builds a registry and calls Wallet::new
New ==
  /\ wallet.tag = "None"
  /\ \E keyring \in NewKeyRings :
       LET w == Wallet_new(keyring)
       IN /\ wallet' = IF w.tag = "panic" THEN NONE ELSE w
          /\ last' = [op |-> "new", res |-> IF w.tag = "panic" THEN "panic" ELSE "Ok",
                      ret |-> NONE]
          /\ own' = (w.tag = "panic" \/ is_empty(from_sqlite(store)))
  /\ UNCHANGED <<store, mvars, pvars, rtvars, rlvars, bvars, kvars, uvars>>

\* Wallet::from_sqlite on the store, meeting an error at `fail`
Load ==
  /\ wallet.tag = "None"
  /\ \E fail \in LoadFailPoints :
       LET r == Wallet_from_sqlite(store, fail)
       IN /\ store' = r.conn
          /\ wallet' = IF r.wallet.tag = "panic" THEN NONE ELSE r.wallet
          /\ last' = [op |-> "from_sqlite",
                      res |-> IF r.wallet.tag = "panic" THEN "panic" ELSE r.res,
                      ret |-> NONE]
          /\ own' = TRUE
  /\ UNCHANGED <<mvars, pvars, rtvars, rlvars, bvars, kvars, uvars>>

\* wallet.reveal_next_address(keychain)
Reveal ==
  /\ wallet.tag = "Some"
  /\ \E keychain \in Keychains :
       LET r == reveal_next_address(wallet.v, keychain)
       IN /\ r.tag = "Some" => r.i <= MaxIndex
          /\ wallet' = IF r.tag = "None" THEN wallet ELSE Some(r.wallet)
          /\ last' = [op |-> "reveal_next_address",
                      res |-> r.tag,
                      ret |-> IF r.tag = "None" THEN NONE
                              ELSE Some(<<keychain, r.i>>)]
  /\ UNCHANGED <<store, own, mvars, pvars, rtvars, rlvars, bvars, kvars, uvars>>

\* wallet.reveal_next_default_address_unwrap(); a panic ends the process
RevealDefault ==
  /\ wallet.tag = "Some"
  /\ LET r == reveal_next_default_address_unwrap(wallet.v)
     IN /\ r.tag = "Some" => r.i <= MaxIndex
        /\ wallet' = IF r.tag = "panic" THEN NONE ELSE Some(r.wallet)
        /\ last' = [op |-> "reveal_next_default_address_unwrap",
                    res |-> IF r.tag = "panic" THEN "panic" ELSE "Ok",
                    ret |-> IF r.tag = "panic" THEN NONE
                            ELSE Some(<<Keychain_default, r.i>>)]
        /\ own' = (r.tag = "panic" \/ own)
  /\ UNCHANGED <<store, mvars, pvars, rtvars, rlvars, bvars, kvars, uvars>>

\* wallet.apply_update(update); a panic ends the process
ApplyUpdate ==
  /\ wallet.tag = "Some"
  /\ \E update \in WalletUpdates :
       LET w == apply_update(wallet.v, update)
       IN /\ wallet' = IF w.tag = "panic" THEN NONE ELSE w
          /\ last' = [op |-> "apply_update",
                      res |-> IF w.tag = "panic" THEN "panic" ELSE "Ok",
                      ret |-> NONE]
          /\ own' = (w.tag = "panic" \/ own)
  /\ UNCHANGED <<store, mvars, pvars, rtvars, rlvars, bvars, kvars, uvars>>

\* TxBuilder::new(&mut wallet) ... .finish(); a panic ends the process
Finish ==
  /\ wallet.tag = "Some"
  /\ \E b \in Builders :
       LET r == finish(wallet.v, b)
       IN /\ \A d \in DOMAIN r.wallet.tx_graph.index.last_revealed :
               r.wallet.tx_graph.index.last_revealed[d] <= MaxIndex
          /\ wallet' = IF r.res = "panic" THEN NONE ELSE Some(r.wallet)
          /\ last' = [op |-> "finish", res |-> r.res, ret |-> NONE]
          /\ own' = (r.res = "panic" \/ own)
  /\ UNCHANGED <<store, mvars, pvars, rtvars, rlvars, bvars, kvars, uvars>>

\* wallet.persist_to_sqlite(&mut conn), meeting an error at `fail`
Persist ==
  /\ wallet.tag = "Some"
  /\ \E fail \in FailPoints :
       LET r == Wallet_persist_to_sqlite(wallet.v, store, fail)
       IN /\ (fail.at # "none") => r.res = "Err"
          /\ wallet' = Some(r.wallet)
          /\ store' = r.conn
          /\ last' = [op |-> "persist_to_sqlite", res |-> r.res, ret |-> r.ret]
  /\ UNCHANGED <<own, mvars, pvars, rtvars, rlvars, bvars, kvars, uvars>>

\* the process ends; what was staged and not persisted is gone
Exit ==
  /\ wallet.tag = "Some"
  /\ wallet' = NONE
  /\ last' = [op |-> "exit", res |-> "Ok", ret |-> NONE]
  /\ own' = TRUE
  /\ UNCHANGED <<store, mvars, pvars, rtvars, rlvars, bvars, kvars, uvars>>

Next ==
  New \/ Load \/ Reveal \/ RevealDefault \/ ApplyUpdate \/ Finish \/ Persist
    \/ Exit

Spec == Init /\ [][Next]_vars

(***************************************************************************)
(* SpecMerge: two changesets are drawn; b is merged into a, once and       *)
(* again, and a is tested for emptiness.                                   *)
(***************************************************************************)
InitMerge ==
  /\ WalletIdle /\ PersistIdle /\ RoundTripIdle /\ ReloadIdle
  /\ BuildIdle /\ KeyRingIdle /\ UpdateIdle
  /\ cs_a \in ChangeSets /\ cs_b \in ChangeSets
  /\ merged = ChangeSet_default /\ mpc = "inputs"

\* a.merge(b)
MergeOnce ==
  /\ mpc = "inputs"
  /\ merged' = merge(cs_a, cs_b)
  /\ mpc' = "merged"
  /\ UNCHANGED <<cs_a, cs_b, wvars, pvars, rtvars, rlvars, bvars, kvars, uvars>>

\* the same delta merged a second time
MergeAgain ==
  /\ mpc = "merged"
  /\ merged' = merge(merged, cs_b)
  /\ mpc' = "merged_again"
  /\ UNCHANGED <<cs_a, cs_b, wvars, pvars, rtvars, rlvars, bvars, kvars, uvars>>

\* a.is_empty() and a.keyring.is_empty()
TestEmpty ==
  /\ mpc = "inputs"
  /\ merged' = [empty |-> is_empty(cs_a),
                keyring_empty |-> keyring_is_empty(cs_a.keyring)]
  /\ mpc' = "tested"
  /\ UNCHANGED <<cs_a, cs_b, wvars, pvars, rtvars, rlvars, bvars, kvars, uvars>>

NextMerge == MergeOnce \/ MergeAgain \/ TestEmpty

SpecMerge == InitMerge /\ [][NextMerge]_vars

(***************************************************************************)
(* SpecPersist: two changesets are drawn and persisted, in any order and   *)
(* repeatedly, into a store whose tables exist.                            *)
(***************************************************************************)
PersistChangeSets ==
  {c \in ChangeSets : c.indexer = EmptyMap \/ c.tx_graph = {"t1"}}

InitPersist ==
  /\ WalletIdle /\ MergeIdle /\ RoundTripIdle /\ ReloadIdle
  /\ BuildIdle /\ KeyRingIdle /\ UpdateIdle
  /\ pa \in PersistChangeSets /\ pb \in PersistChangeSets
  /\ pdb = init_sqlite_tables(EmptyStore) /\ plog = <<>>

\* a.persist_to_sqlite(&tx); tx.commit()
PersistA ==
  /\ Len(plog) < MaxPersists
  /\ pdb' = commit([transaction(pdb) EXCEPT !.view = persist_to_sqlite(pa, @)])
  /\ plog' = Append(plog, "a")
  /\ UNCHANGED <<pa, pb, wvars, mvars, rtvars, rlvars, bvars, kvars, uvars>>

\* b.persist_to_sqlite(&tx); tx.commit()
PersistB ==
  /\ Len(plog) < MaxPersists
  /\ pdb' = commit([transaction(pdb) EXCEPT !.view = persist_to_sqlite(pb, @)])
  /\ plog' = Append(plog, "b")
  /\ UNCHANGED <<pa, pb, wvars, mvars, rtvars, rlvars, bvars, kvars, uvars>>

NextPersist == PersistA \/ PersistB

SpecPersist == InitPersist /\ [][NextPersist]_vars

(***************************************************************************)
(* SpecRoundTrip: a registry's initial changeset is persisted into an      *)
(* empty store and the registry is rebuilt from what the store holds.      *)
(***************************************************************************)
InitRoundTrip ==
  /\ WalletIdle /\ MergeIdle /\ PersistIdle /\ ReloadIdle
  /\ BuildIdle /\ KeyRingIdle /\ UpdateIdle
  /\ reg \in KeyRings
  /\ rt_rest \in {c \in ChangeSets : c.keyring = keyring_default}
  /\ rt_db = EmptyStore /\ rt_loaded = NONE /\ rt_pc = "start"

\* ChangeSet::initialize on the empty store: the tables are created
RoundTripInitialize ==
  /\ rt_pc = "start"
  /\ rt_db' = commit([transaction(rt_db) EXCEPT !.view = init_sqlite_tables(@)])
  /\ rt_pc' = "initialized"
  /\ UNCHANGED <<reg, rt_rest, rt_loaded, wvars, mvars, pvars, rlvars, bvars, kvars, uvars>>

\* the changeset whose registry part is reg.initial_changeset() is persisted
RoundTripPersist ==
  /\ rt_pc = "initialized"
  /\ rt_db' = commit([transaction(rt_db) EXCEPT !.view =
                        persist_to_sqlite(
                          [rt_rest EXCEPT !.keyring = initial_changeset(reg)], @)])
  /\ rt_pc' = "persisted"
  /\ UNCHANGED <<reg, rt_rest, rt_loaded, wvars, mvars, pvars, rlvars, bvars, kvars, uvars>>

\* ChangeSet::initialize reads the store; KeyRing::from_changeset rebuilds
RoundTripLoad ==
  /\ rt_pc = "persisted"
  /\ rt_loaded' = IF initialize(rt_db).tag = "None" THEN NONE
                  ELSE KeyRing_from_changeset(initialize(rt_db).v.keyring)
  /\ rt_pc' = "loaded"
  /\ UNCHANGED <<reg, rt_rest, rt_db, wvars, mvars, pvars, rlvars, bvars, kvars, uvars>>

NextRoundTrip == RoundTripInitialize \/ RoundTripPersist \/ RoundTripLoad

SpecRoundTrip == InitRoundTrip /\ [][NextRoundTrip]_vars

(***************************************************************************)
(* SpecReload: Wallet::from_changeset on any changeset.                    *)
(***************************************************************************)
InitReload ==
  /\ WalletIdle /\ MergeIdle /\ PersistIdle /\ RoundTripIdle
  /\ BuildIdle /\ KeyRingIdle /\ UpdateIdle
  /\ rl_cs \in ChangeSets /\ rl_res = [tag |-> "idle"]

FromChangeset ==
  /\ rl_res.tag = "idle"
  /\ rl_res' = Wallet_from_changeset(rl_cs)
  /\ UNCHANGED <<rl_cs, wvars, mvars, pvars, rtvars, bvars, kvars, uvars>>

NextReload == FromChangeset

SpecReload == InitReload /\ [][NextReload]_vars

(***************************************************************************)
(* SpecBuild: a registry is built with add_descriptor, a wallet is made    *)
(* from it, one update brings transactions and active indices, and one     *)
(* transaction is built.                                                   *)
(***************************************************************************)
\* the updates SpecBuild applies: transactions seen in the mempool, one that
\* was not seen, one whose output another one spends, and active indices
BuildUpdates ==
  {[chain |-> NONE, tx_update |-> t, last_active_indices |-> m] :
     t \in {{}, {"t1"}, seen({"t1"}), seen({"t1", "t2"}),
            seen({"t1", "t2", "t3"}), seen({"t4"}), seen({"t1", "t5"})},
     m \in ActiveIndices}

\* the builders SpecBuild runs: one and two recipients, amounts below and
\* above what the wallet holds, every preferred keychain, and fee rates that
\* are the default, small, larger than a single coin can pay, and
\* FeeRate::MAX, for which the fee overflows
BuildBuilders ==
  {[recipients |-> r, fee_rate |-> f, preferred_keychain |-> p,
    drain_wallet |-> d] :
     r \in {<<>>, <<200>>, <<900>>, <<1350>>, <<200, 400>>, <<2000>>},
     f \in {NONE, Some(2), Some(5), Some(FeeRate_MAX)},
     p \in {None} \cup Keychains,
     d \in BOOLEAN}

InitBuild ==
  /\ WalletIdle /\ MergeIdle /\ PersistIdle /\ RoundTripIdle
  /\ ReloadIdle /\ KeyRingIdle /\ UpdateIdle
  /\ bk = KeyRing_new("Signet") /\ bw = NONE
  /\ bu = [chain |-> NONE, tx_update |-> {}, last_active_indices |-> EmptyMap]
  /\ bb = [recipients |-> <<>>, fee_rate |-> NONE, preferred_keychain |-> None,
           drain_wallet |-> FALSE]
  /\ bres = [res |-> "idle"] /\ bpc = "registry"

\* keyring.add_descriptor(keychain, descriptor)
BuildAddDescriptor ==
  /\ bpc = "registry"
  /\ \E k \in Keychains, d \in Descriptors : bk' = add_descriptor(bk, k, d)
  /\ UNCHANGED <<bw, bu, bb, bres, bpc, wvars, mvars, pvars, rtvars, rlvars, kvars, uvars>>

\* Wallet::new(keyring): the wallet, or the panic
BuildNew ==
  /\ bpc = "registry"
  /\ bw' = Wallet_new(bk)
  /\ bpc' = "new"
  /\ UNCHANGED <<bk, bu, bb, bres, wvars, mvars, pvars, rtvars, rlvars, kvars, uvars>>

\* wallet.apply_update(update)
BuildUpdate ==
  /\ bpc = "new" /\ bw.tag = "Some"
  /\ \E u \in BuildUpdates :
       /\ bu' = u
       /\ bw' = apply_update(bw.v, u)
  /\ bpc' = "updated"
  /\ UNCHANGED <<bk, bb, bres, wvars, mvars, pvars, rtvars, rlvars, kvars, uvars>>

\* TxBuilder::new(&mut wallet) ... .finish()
BuildFinish ==
  /\ bpc = "updated" /\ bw.tag = "Some"
  /\ \E b \in BuildBuilders :
       /\ bb' = b
       /\ bres' = finish(bw.v, b)
  /\ bpc' = "finished"
  /\ UNCHANGED <<bk, bw, bu, wvars, mvars, pvars, rtvars, rlvars, kvars, uvars>>

NextBuild == BuildAddDescriptor \/ BuildNew \/ BuildUpdate \/ BuildFinish

SpecBuild == InitBuild /\ [][NextBuild]_vars

(***************************************************************************)
(* SpecKeyRing: a registry of descriptor identifiers, filled through the   *)
(* validated and the unvalidated operations and emptied by removal.        *)
(***************************************************************************)
\* the keychain identifiers of SpecKeyRing
KeyRingKeychains == {descriptor_id(d) : d \in SingleDescriptors}

InitKeyRing ==
  /\ WalletIdle /\ MergeIdle /\ PersistIdle /\ RoundTripIdle
  /\ ReloadIdle /\ BuildIdle /\ UpdateIdle
  /\ kr = KeyRing_new("Signet") /\ kprev = KeyRing_new("Signet")
  /\ kcall = [op |-> "idle"] /\ kret = "idle"

\* keyring.add_descriptor_validated(keychain, input)
KeyRingAddValidated ==
  \E k \in KeyRingKeychains, input \in DescriptorInputs :
    LET r == add_descriptor_validated(kr, k, input)
    IN /\ kprev' = kr
       /\ kcall' = [op |-> "add_descriptor_validated", keychain |-> k,
                    input |-> input]
       /\ kret' = r.res
       /\ kr' = r.keyring
       /\ UNCHANGED <<wvars, mvars, pvars, rtvars, rlvars, bvars, uvars>>

\* keyring.add_multipath_descriptor_validated(input)
KeyRingAddMultipathValidated ==
  \E input \in DescriptorInputs :
    LET r == add_multipath_descriptor_validated(kr, input)
    IN /\ kprev' = kr
       /\ kcall' = [op |-> "add_multipath_descriptor_validated",
                    keychain |-> None, input |-> input]
       /\ kret' = r.res
       /\ kr' = r.keyring
       /\ UNCHANGED <<wvars, mvars, pvars, rtvars, rlvars, bvars, uvars>>

\* keyring.add_descriptor(keychain, input)
KeyRingAdd ==
  \E k \in KeyRingKeychains, input \in DescriptorInputs :
    LET r == add_descriptor_unvalidated(kr, k, input)
    IN /\ kprev' = kr
       /\ kcall' = [op |-> "add_descriptor", keychain |-> k, input |-> input]
       /\ kret' = r.res
       /\ kr' = r.keyring
       /\ UNCHANGED <<wvars, mvars, pvars, rtvars, rlvars, bvars, uvars>>

\* keyring.add_multipath_descriptor(input)
KeyRingAddMultipath ==
  \E input \in DescriptorInputs :
    LET r == add_multipath_descriptor(kr, input)
    IN /\ kprev' = kr
       /\ kcall' = [op |-> "add_multipath_descriptor", keychain |-> None,
                    input |-> input]
       /\ kret' = r.res
       /\ kr' = r.keyring
       /\ UNCHANGED <<wvars, mvars, pvars, rtvars, rlvars, bvars, uvars>>

\* keyring.remove_keychain(&keychain)
KeyRingRemove ==
  \E k \in KeyRingKeychains :
    LET r == remove_keychain(kr, k)
    IN /\ kprev' = kr
       /\ kcall' = [op |-> "remove_keychain", keychain |-> k]
       /\ kret' = r.res
       /\ kr' = r.keyring
       /\ UNCHANGED <<wvars, mvars, pvars, rtvars, rlvars, bvars, uvars>>

NextKeyRing ==
  KeyRingAddValidated \/ KeyRingAddMultipathValidated \/ KeyRingAdd
    \/ KeyRingAddMultipath \/ KeyRingRemove

SpecKeyRing == InitKeyRing /\ [][NextKeyRing]_vars

(***************************************************************************)
(* SpecUpdate: calls of Wallet::apply_update on one wallet, followed       *)
(* statement by statement.                                                 *)
(***************************************************************************)
\* the registry of SpecUpdate's wallet: a wildcard and a fixed descriptor
UpdateKeyRing ==
  add_descriptor(add_descriptor(KeyRing_new("Signet"), "idA", "dA"),
                 "idB", "dB")

InitUpdate ==
  /\ WalletIdle /\ MergeIdle /\ PersistIdle /\ RoundTripIdle
  /\ ReloadIdle /\ BuildIdle /\ KeyRingIdle
  /\ uw = Wallet_new(UpdateKeyRing) /\ ustart = uw
  /\ uupd = [chain |-> NONE, tx_update |-> {}, last_active_indices |-> EmptyMap]
  /\ ucs = ChangeSet_default /\ upc = "idle"

\* wallet.apply_update(update) is entered: `let mut changeset =
\* ChangeSet::default()`
UpdateCall ==
  /\ upc \in {"idle", "done"}
  /\ \E update \in Updates : uupd' = update
  /\ ustart' = uw
  /\ ucs' = ChangeSet_default
  /\ upc' = "chain"
  /\ UNCHANGED <<uw, wvars, mvars, pvars, rtvars, rlvars, bvars, kvars>>

\* the chain statement; a panic ends the call
UpdateChain ==
  /\ upc = "chain"
  /\ LET r == apply_update_chain(uw.v, ucs, uupd)
     IN /\ uw' = Some(r.self)
        /\ ucs' = r.changeset
        /\ upc' = IF r.tag = "panic" THEN "panicked" ELSE "index"
  /\ UNCHANGED <<ustart, uupd, wvars, mvars, pvars, rtvars, rlvars, bvars,
                 kvars>>

\* the index statement
UpdateIndex ==
  /\ upc = "index"
  /\ LET r == apply_update_index(uw.v, ucs, uupd)
     IN /\ uw' = Some(r.self)
        /\ ucs' = r.changeset
  /\ upc' = "graph"
  /\ UNCHANGED <<ustart, uupd, wvars, mvars, pvars, rtvars, rlvars, bvars,
                 kvars>>

\* the tx-graph statement
UpdateGraph ==
  /\ upc = "graph"
  /\ LET r == apply_update_graph(uw.v, ucs, uupd)
     IN /\ uw' = Some(r.self)
        /\ ucs' = r.changeset
  /\ upc' = "stage"
  /\ UNCHANGED <<ustart, uupd, wvars, mvars, pvars, rtvars, rlvars, bvars,
                 kvars>>

\* `self.stage(changeset)`
UpdateStage ==
  /\ upc = "stage"
  /\ uw' = Some(stage(uw.v, ucs))
  /\ upc' = "done"
  /\ UNCHANGED <<ustart, uupd, ucs, wvars, mvars, pvars, rtvars, rlvars,
                 bvars, kvars>>

NextUpdate ==
  UpdateCall \/ UpdateChain \/ UpdateIndex \/ UpdateGraph \/ UpdateStage

SpecUpdate == InitUpdate /\ [][NextUpdate]_vars

(***************************************************************************)
(* Properties of the wallet's stage and of persisting it (Spec).           *)
(***************************************************************************)
\* what an operation changed in the wallet's in-memory state, as a
\* changeset: the blocks that differ, the transactions that are new, the
\* last-revealed indices that moved
state_delta(before, after) ==
  [keyring |-> keyring_default,
   local_chain |->
     [h \in {x \in DOMAIN after.chain :
               x \notin DOMAIN before.chain \/ before.chain[x] # after.chain[x]}
            \cup (DOMAIN before.chain \ DOMAIN after.chain) |->
        IF h \in DOMAIN after.chain THEN after.chain[h] ELSE None],
   tx_graph |-> after.tx_graph.txs \ before.tx_graph.txs,
   indexer |->
     [d \in {x \in DOMAIN after.tx_graph.index.last_revealed :
               \/ x \notin DOMAIN before.tx_graph.index.last_revealed
               \/ before.tx_graph.index.last_revealed[x]
                    # after.tx_graph.index.last_revealed[x]} |->
        after.tx_graph.index.last_revealed[d]]]

\* C1: a persist_to_sqlite call that returns an error leaves the wallet's
\* stage (and the rest of the wallet) as it was before the call, so a retry
\* persists the same changeset.
C1_FailedPersistKeepsStage ==
  [][(last'.op = "persist_to_sqlite" /\ last'.res = "Err")
       => /\ wallet'.v.stage = wallet.v.stage
          /\ staged(wallet'.v) = staged(wallet.v)]_vars

\* a persist failed on a store whose tables exist while changes were staged
C1_Witness ==
  /\ last.op = "persist_to_sqlite" /\ last.res = "Err"
  /\ store.tables
  /\ wallet.tag = "Some" /\ ~is_empty(wallet.v.stage)

\* C2: a successful persist_to_sqlite with a non-empty stage returns exactly
\* the changeset that was staged, the store has received that changeset and
\* the stage is empty afterwards; with an empty stage it returns None and
\* writes nothing.
C2_SuccessfulPersistDrainsStage ==
  [][(last'.op = "persist_to_sqlite" /\ last'.res = "Ok")
       => IF is_empty(wallet.v.stage)
            THEN last'.ret = NONE /\ store' = store /\ wallet' = wallet
            ELSE /\ last'.ret = Some(wallet.v.stage)
                 /\ store' = persist_to_sqlite(wallet.v.stage, store)
                 /\ is_empty(wallet'.v.stage)
                 /\ staged(wallet'.v) = NONE]_vars

\* a persist succeeded and returned a changeset that the store now holds
C2_Witness ==
  /\ last.op = "persist_to_sqlite" /\ last.res = "Ok"
  /\ last.ret.tag = "Some"
  /\ store.network = Network_to_sql(last.ret.v.keyring.network)
  /\ wallet.tag = "Some" /\ is_empty(wallet.v.stage)

\* C3: reveal_next_address, apply_update and finish leave the stage equal to
\* the merge of the stage before with what the operation changed; only a
\* successful persist_to_sqlite turns a non-empty stage into an empty one.
C3_StageOnlyGrowsUntilPersisted ==
  [][/\ (last'.op \in {"reveal_next_address", "apply_update", "finish"}
           /\ wallet'.tag = "Some")
          => wallet'.v.stage
               = merge(wallet.v.stage, state_delta(wallet.v, wallet'.v))
     /\ (wallet.tag = "Some" /\ wallet'.tag = "Some"
           /\ ~is_empty(wallet.v.stage) /\ is_empty(wallet'.v.stage))
          => (last'.op = "persist_to_sqlite" /\ last'.res = "Ok")]_vars

\* a build has run on a stage that holds a registry delta, blocks, a
\* transaction and revealed indices from earlier operations
C3_Witness ==
  /\ last.op = "finish" /\ last.res = "Ok"
  /\ wallet.tag = "Some"
  /\ wallet.v.stage.keyring.network # None
  /\ 1 \in DOMAIN wallet.v.stage.local_chain
  /\ wallet.v.stage.tx_graph # {}
  /\ "idA" \in DOMAIN wallet.v.stage.indexer
  /\ wallet.v.stage.indexer["idA"] = 1

\* C5: a persist is atomic: the store afterwards is the store before, or the
\* store before with the whole staged changeset written, and the latter only
\* when the call succeeded; in every store state a descriptor row is present
\* only if the network row is present.
C5_PersistIsAtomic ==
  /\ [](DOMAIN store.descriptors # {} => store.network # None)
  /\ [][last'.op = "persist_to_sqlite"
          => IF last'.res = "Ok" /\ ~is_empty(wallet.v.stage)
               THEN store' = persist_to_sqlite(wallet.v.stage, store)
               ELSE store' = store]_vars

\* a persist failed after an earlier one had committed a network and
\* descriptors, with more changes staged
C5_Witness ==
  /\ last.op = "persist_to_sqlite" /\ last.res = "Err"
  /\ store.network # None /\ DOMAIN store.descriptors # {}
  /\ wallet.tag = "Some" /\ ~is_empty(wallet.v.stage)

(***************************************************************************)
(* Properties of revealing addresses (Spec).                               *)
(***************************************************************************)
\* the last revealed indices of a wallet, by descriptor id
last_revealed(self) == self.tx_graph.index.last_revealed

\* C13: reveal_next_address is strictly monotonic per keychain: every
\* successful reveal_next_address(k) returns an index strictly greater than
\* every index revealed before for k; no index is returned twice.
C13_RevealStrictlyMonotonic ==
  [][(last'.op = "reveal_next_address" /\ last'.res = "Some")
       => LET k == last'.ret.v[1]
              i == last'.ret.v[2]
              did == descriptor_id(keychains(wallet.v)[k])
          IN did \in DOMAIN last_revealed(wallet.v)
               => i > last_revealed(wallet.v)[did]]_vars

\* C13 as amended: for a keychain whose descriptor has a wildcard every
\* successful reveal_next_address returns the index after the last revealed
\* one, so an index above all revealed before; for a descriptor without a
\* wildcard it returns index 0 every time; and no operation of a live wallet
\* lowers a last revealed index.
C13_RevealMonotonicWithWildcard ==
  [][/\ (last'.op = "reveal_next_address" /\ last'.res = "Some")
          => LET k == last'.ret.v[1]
                 i == last'.ret.v[2]
                 d == keychains(wallet.v)[k]
                 did == descriptor_id(d)
             IN /\ (has_wildcard(d) /\ did \in DOMAIN last_revealed(wallet.v))
                     => i = last_revealed(wallet.v)[did] + 1
                /\ (has_wildcard(d) /\ did \notin DOMAIN last_revealed(wallet.v))
                     => i = 0
                /\ ~has_wildcard(d) => i = 0
                /\ last_revealed(wallet'.v)[did] = i
     /\ (wallet.tag = "Some" /\ wallet'.tag = "Some")
          => \A did \in DOMAIN last_revealed(wallet.v) :
               /\ did \in DOMAIN last_revealed(wallet'.v)
               /\ last_revealed(wallet'.v)[did] >= last_revealed(wallet.v)[did]]_vars

\* the wildcard keychain was revealed a second time and gave index 1
C13_Witness ==
  /\ last.op = "reveal_next_address" /\ last.res = "Some"
  /\ last.ret = Some(<<"idA", 1>>)
  /\ wallet.tag = "Some"
  /\ has_wildcard(keychains(wallet.v)["idA"])
  /\ last_revealed(wallet.v)["idA"] = 1

\* C14: reveal_next_address(k) for a keychain k that is not registered in
\* the wallet returns None and leaves the stage, the revealed indices, the
\* chain and the graph (the whole wallet, and the store) unchanged.
C14_RevealUnknownKeychain ==
  /\ [](wallet.tag = "Some"
          => \A k \in Keychains \ DOMAIN keychains(wallet.v) :
               reveal_next_address(wallet.v, k).tag = "None")
  /\ [][(last'.op = "reveal_next_address" /\ last'.res = "None")
          => (wallet' = wallet /\ store' = store)]_vars

\* a reveal for a keychain the wallet does not have returned None in a
\* wallet that has another keychain with revealed indices and staged changes
C14_Witness ==
  /\ last.op = "reveal_next_address" /\ last.res = "None"
  /\ wallet.tag = "Some"
  /\ DOMAIN keychains(wallet.v) = {"idA"}
  /\ last_revealed(wallet.v) # EmptyMap
  /\ ~is_empty(wallet.v.stage)

\* C15: apply_update never lowers the last revealed index of a keychain:
\* after apply_update with the active-index map m every last revealed index
\* is at least what it was, and for every registered keychain k named in m
\* it is at least m[k].
C15_UpdateReachesTargets ==
  wallet.tag = "Some" =>
    \A u \in Updates :
      LET after == apply_update(wallet.v, u)
          m == u.last_active_indices
      IN after.tag = "Some" =>
           /\ \A did \in DOMAIN last_revealed(wallet.v) :
                /\ did \in DOMAIN last_revealed(after.v)
                /\ last_revealed(after.v)[did] >= last_revealed(wallet.v)[did]
           /\ \A k \in DOMAIN m \cap DOMAIN keychains(wallet.v) :
                LET did == descriptor_id(keychains(wallet.v)[k])
                IN /\ did \in DOMAIN last_revealed(after.v)
                   /\ last_revealed(after.v)[did] >= m[k]

\* C15 as amended: apply_update never lowers a last revealed index; for a
\* registered keychain named in m whose descriptor has a wildcard the last
\* revealed index is afterwards at least m[k]; for one whose descriptor has
\* no wildcard it is 0, whatever m[k] is.
C15_UpdateReachesTargetsWithWildcard ==
  wallet.tag = "Some" =>
    \A u \in Updates :
      LET after == apply_update(wallet.v, u)
          m == u.last_active_indices
      IN after.tag = "Some" =>
           /\ \A did \in DOMAIN last_revealed(wallet.v) :
                /\ did \in DOMAIN last_revealed(after.v)
                /\ last_revealed(after.v)[did] >= last_revealed(wallet.v)[did]
           /\ \A k \in DOMAIN m \cap DOMAIN keychains(wallet.v) :
                LET d == keychains(wallet.v)[k]
                    did == descriptor_id(d)
                IN /\ did \in DOMAIN last_revealed(after.v)
                   /\ has_wildcard(d) => last_revealed(after.v)[did] >= m[k]
                   /\ ~has_wildcard(d) => last_revealed(after.v)[did] = 0

\* an update has run that named both keychains with target 1: the wildcard
\* keychain is revealed up to 1, the other one is at 0
C15_Witness ==
  /\ last.op = "apply_update" /\ last.res = "Ok"
  /\ wallet.tag = "Some"
  /\ DOMAIN keychains(wallet.v) = Keychains
  /\ DOMAIN last_revealed(wallet.v) = {"idA", "idB"}
  /\ last_revealed(wallet.v)["idA"] = 1
  /\ last_revealed(wallet.v)["idB"] = 0

(***************************************************************************)
(* Properties of merging changesets (SpecMerge).                           *)
(***************************************************************************)
\* C6: merging never deletes: after a.merge(b) a network recorded in a is
\* still a's, and every keychain of a still maps to the descriptor it had in
\* a, even when b carries another descriptor for the same keychain.
C6_MergeKeepsRecorded ==
  mpc = "merged" =>
    /\ cs_a.keyring.network # None
         => merged.keyring.network = cs_a.keyring.network
    /\ \A k \in DOMAIN cs_a.keyring.descriptors :
         /\ k \in DOMAIN merged.keyring.descriptors
         /\ merged.keyring.descriptors[k] = cs_a.keyring.descriptors[k]

\* C7: merge is idempotent (merging the same delta a second time changes
\* nothing) and associative (merging b then c equals merging b-merged-with-c),
\* for the aggregate changeset and so for its registry part.
C7_MergeIdempotentAssociative ==
  /\ mpc = "merged_again" =>
       /\ merged = merge(cs_a, cs_b)
       /\ merged.keyring = keyring_merge(cs_a.keyring, cs_b.keyring)
  /\ mpc = "merged" =>
       \A c \in ChangeSets :
         /\ merge(merged, c) = merge(cs_a, merge(cs_b, c))
         /\ keyring_merge(merged.keyring, c.keyring)
              = keyring_merge(cs_a.keyring,
                              keyring_merge(cs_b.keyring, c.keyring))

\* two deltas that disagree on the network and on both keychains were merged
\* twice
C7_Witness ==
  /\ mpc = "merged_again"
  /\ cs_a.keyring.network = "Bitcoin" /\ cs_b.keyring.network = "Signet"
  /\ DOMAIN cs_a.keyring.descriptors = Keychains
  /\ DOMAIN cs_b.keyring.descriptors = Keychains
  /\ cs_a.keyring.descriptors # cs_b.keyring.descriptors
  /\ cs_a.indexer # EmptyMap /\ cs_b.indexer # EmptyMap

\* C8: is_empty holds exactly of the identity (no network, no descriptors,
\* all parts empty), for the registry changeset and for the aggregate, and
\* merging an empty changeset into x leaves x unchanged.
C8_EmptyIsIdentity ==
  /\ mpc = "tested" =>
       /\ merged.empty <=> (cs_a = ChangeSet_default)
       /\ merged.keyring_empty <=> (cs_a.keyring = keyring_default)
  /\ mpc = "merged" =>
       /\ is_empty(cs_b) <=> (cs_b = ChangeSet_default)
       /\ is_empty(cs_b) => merged = cs_a
       /\ keyring_is_empty(cs_b.keyring) => merged.keyring = cs_a.keyring

\* an empty changeset was merged into one whose only content is a revealed
\* index
C8_Witness ==
  /\ mpc = "merged"
  /\ is_empty(cs_b) /\ ~is_empty(cs_a)
  /\ keyring_is_empty(cs_a.keyring)
  /\ cs_a.local_chain = EmptyMap /\ cs_a.tx_graph = {}
  /\ merged = cs_a

(***************************************************************************)
(* Properties of the store (SpecPersist, SpecRoundTrip).                   *)
(***************************************************************************)
\* C4: persisting a changeset that was just committed is a no-op: in the
\* store reached by persisting C, persisting C again leaves the stored
\* network and the descriptor table as they are.
C4_RepersistIsNoOp ==
  [][(Len(plog) >= 1 /\ Len(plog') = Len(plog) + 1
        /\ plog'[Len(plog')] = plog[Len(plog)])
       => /\ pdb'.network = pdb.network
          /\ pdb'.descriptors = pdb.descriptors]_vars

\* a changeset with a network and descriptors was persisted twice in a row
\* into a store that already held another changeset's descriptors
C4_Witness ==
  /\ plog = <<"b", "a", "a">>
  /\ pa.keyring.network # None /\ pa.keyring.descriptors # EmptyMap
  /\ pb.keyring.network = None
  /\ DOMAIN pb.keyring.descriptors \ DOMAIN pa.keyring.descriptors # {}
  /\ pdb.network = Network_to_sql(pa.keyring.network)

\* C9: the registry round trip: a registry's initial changeset, persisted
\* into an empty store, read back and given to KeyRing::from_changeset,
\* yields a registry with the same network and the same descriptor map.
C9_RegistryRoundTrip ==
  rt_pc = "loaded" =>
    /\ rt_loaded.tag = "Some"
    /\ rt_loaded.v.network = reg.network
    /\ rt_loaded.v.descriptors = reg.descriptors

\* a registry with a descriptor under each keychain went through the store
C9_Witness ==
  /\ rt_pc = "loaded"
  /\ DOMAIN reg.descriptors = Keychains
  /\ DOMAIN rt_db.descriptors # {}
  /\ rt_loaded.tag = "Some"

(***************************************************************************)
(* Properties of reloading a wallet (SpecReload).                          *)
(***************************************************************************)
\* C10: Wallet::from_changeset returns None, without aborting, whenever the
\* changeset is empty or its registry part has no network, whatever the
\* chain, graph and index parts hold.
C10_ReloadReturnsNone ==
  (rl_res.tag # "idle" /\ (is_empty(rl_cs) \/ rl_cs.keyring.network = None))
    => rl_res.tag = "None"

\* C11: when Wallet::from_changeset succeeds, the reloaded wallet has an
\* empty stage (staged() is None) and keychains() lists exactly the
\* keychain-to-descriptor bindings of the changeset's registry part.
C11_ReloadRegistersBindings ==
  rl_res.tag = "Some" =>
    /\ is_empty(rl_res.v.stage)
    /\ staged(rl_res.v) = NONE
    /\ keychains(rl_res.v) = rl_cs.keyring.descriptors

\* a changeset with a descriptor under each keychain, blocks, a transaction
\* and a revealed index was reloaded
C11_Witness ==
  /\ rl_res.tag = "Some"
  /\ DOMAIN rl_cs.keyring.descriptors = Keychains
  /\ rl_cs.tx_graph # {} /\ rl_cs.indexer # EmptyMap

(***************************************************************************)
(* Properties of building a wallet and a transaction (SpecBuild).          *)
(***************************************************************************)
\* C12: Wallet::new completes for every registry built with the registry's
\* add operations, also one that holds the same descriptor under two
\* keychains; afterwards the index has every descriptor of the registry
\* under its keychain and the stage is the registry's initial changeset
\* plus the genesis chain delta, with empty graph and index parts, so
\* staged() is present.
C12_NewCompletes ==
  bpc = "new" =>
    /\ bw.tag = "Some"
    /\ keychains(bw.v) = bk.descriptors
    /\ bw.v.stage =
         [keyring |-> initial_changeset(bk),
          local_chain |-> from_genesis_hash(genesis_hash(bk.network)).changeset,
          tx_graph |-> {}, indexer |-> EmptyMap]
    /\ staged(bw.v) = Some(bw.v.stage)

\* C16: finish fails with NoRecipients whenever the recipient list is empty
\* and drain_wallet is not set, whatever unspent outputs the wallet has, and
\* the wallet is left as it was.
C16_NoRecipientsFirst ==
  (bpc = "finished" /\ Len(bb.recipients) = 0 /\ ~bb.drain_wallet)
    => (bres.res = "NoRecipients" /\ bres.wallet = bw.v)

\* a builder without recipients and without drain_wallet was finished on a
\* wallet that has no candidate outputs
C16_Witness ==
  /\ bpc = "finished" /\ bres.res = "NoRecipients"
  /\ get_available_utxos(bw.v, bb) = <<>>
  /\ keychains(bw.v) # EmptyMap

\* C17: once the recipients check has passed, finish fails with NoUtxos if
\* and only if no unspent output of the wallet's graph (an output of a
\* transaction seen in the mempool that no seen transaction spends) is paid
\* to a keychain of the index (to the preferred keychain, when one is set),
\* in drain mode and otherwise.
C17_NoUtxosIffNoCandidates ==
  (bpc = "finished" /\ ~(Len(bb.recipients) = 0 /\ ~bb.drain_wallet))
    => LET graph == bw.v.tx_graph.txs
           candidates ==
             {t \in full_txs(graph) :
                /\ seen_at(t) \in graph
                /\ \A u \in full_txs(graph) :
                     tx_input(u) = t => seen_at(u) \notin graph
                /\ \E k \in DOMAIN keychains(bw.v) :
                     /\ descriptor_id(keychains(bw.v)[k]) = tx_output(t).did
                     /\ bb.preferred_keychain \in {None, k}}
       IN (bres.res = "NoUtxos") <=> (candidates = {})

\* a draining builder that prefers a keychain without outputs failed with
\* NoUtxos on a wallet that has outputs on another keychain
C17_Witness ==
  /\ bpc = "finished" /\ bres.res = "NoUtxos"
  /\ bb.drain_wallet /\ bb.preferred_keychain # None
  /\ get_available_utxos(bw.v, [bb EXCEPT !.preferred_keychain = None]) # <<>>

\* C18: in non-drain mode the selected coins are the shortest prefix of the
\* candidates sorted by descending value whose total is at least target +
\* the fee estimated for that prefix's shape: every selected coin is at
\* least as large as every unselected candidate, the selected total covers
\* target + fee, and no shorter prefix covers target + the fee of its own
\* shape.
C18_ShortestCoveringPrefix ==
  (bpc = "finished" /\ ~bb.drain_wallet /\ bres.res = "Ok")
    => LET cand == get_available_utxos(bw.v, bb)
           sel == bres.inputs
           rate == IF bb.fee_rate.tag = "None" THEN 1 ELSE bb.fee_rate.v
           target == sum_amounts(bb.recipients)
           fee(n) == fee_vb(rate, estimate_tx_size(n, Len(bb.recipients)))
           chosen == {sel[i].outpoint : i \in 1..Len(sel)}
       IN /\ Len(sel) >= 1
          /\ Cardinality(chosen) = Len(sel)
          /\ \A i \in 1..Len(sel) : \E j \in 1..Len(cand) : cand[j] = sel[i]
          /\ \A i \in 1..(Len(sel) - 1) : sel[i].value >= sel[i + 1].value
          /\ \A i \in 1..Len(sel) : \A j \in 1..Len(cand) :
               cand[j].outpoint \notin chosen => sel[i].value >= cand[j].value
          /\ sum_values(sel) >= target + fee(Len(sel))
          /\ \A n \in 1..(Len(sel) - 1) :
               sum_values(SubSeq(sel, 1, n)) < target + fee(n)

\* two of three candidates were selected: the largest alone did not cover
\* the target and its fee
C18_Witness ==
  /\ bpc = "finished" /\ ~bb.drain_wallet /\ bres.res = "Ok"
  /\ Len(get_available_utxos(bw.v, bb)) = 3
  /\ Len(bres.inputs) = 2

\* C19 as stated: in non-drain mode finish fails with InsufficientFunds if
\* and only if the total value of all candidates is less than target + fee,
\* the fee being the one the error reports, estimated for all candidates as
\* inputs; the error then reports available = the total value of all
\* candidates and required = target + fee.
C19_InsufficientFundsIffTotalShort ==
  (bpc = "finished" /\ ~bb.drain_wallet /\ Len(bb.recipients) > 0
     /\ Len(get_available_utxos(bw.v, bb)) > 0)
    => LET cand == get_available_utxos(bw.v, bb)
           rate == IF bb.fee_rate.tag = "None" THEN 1 ELSE bb.fee_rate.v
           target == sum_amounts(bb.recipients)
           fee == fee_vb(rate, estimate_tx_size(Len(cand), Len(bb.recipients)))
           total == sum_values(cand)
       IN /\ (bres.res = "InsufficientFunds") <=> (total < target + fee)
          /\ bres.res = "InsufficientFunds"
               => /\ bres.available = total
                  /\ bres.required = target + fee

\* C19, amended: in non-drain mode, once the recipients and the candidates
\* are not empty, finish fails with InsufficientFunds if and only if for
\* every n the n largest candidates total less than target + the fee
\* estimated for n inputs; the total value of all candidates is then less
\* than target + the fee for all candidates as inputs, the error reports
\* available = that total and required = target + that fee, and the wallet
\* is left as it was.
C19_InsufficientFundsIffNoPrefixCovers ==
  (bpc = "finished" /\ ~bb.drain_wallet /\ Len(bb.recipients) > 0
     /\ Len(get_available_utxos(bw.v, bb)) > 0)
    => LET cand == sort_by_value(get_available_utxos(bw.v, bb))
           rate == IF bb.fee_rate.tag = "None" THEN 1 ELSE bb.fee_rate.v
           target == sum_amounts(bb.recipients)
           fee(n) == fee_vb(rate, estimate_tx_size(n, Len(bb.recipients)))
           total == sum_values(cand)
       IN /\ (bres.res = "InsufficientFunds")
               <=> \A n \in 1..Len(cand) :
                     sum_values(SubSeq(cand, 1, n)) < target + fee(n)
          /\ bres.res = "InsufficientFunds"
               => /\ total < target + fee(Len(cand))
                  /\ bres.available = total
                  /\ bres.required = target + fee(Len(cand))
                  /\ bres.wallet = bw.v

\* three candidates worth 1800 in all cannot pay 2000 and its fee
C19_Witness ==
  /\ bpc = "finished" /\ ~bb.drain_wallet /\ bres.res = "InsufficientFunds"
  /\ Len(get_available_utxos(bw.v, bb)) = 3
  /\ bres.available = 1800
  /\ bres.required = 2000 + estimate_tx_size(3, 1)

\* C20: in non-drain mode the built transaction has a change output if and
\* only if leftover = selected total - target - fee exceeds 546, where fee
\* is the estimate for the shape of the built transaction (its number of
\* inputs and its number of outputs, change included), and the change
\* output's value equals that leftover.
C20_ChangeIsLeftoverOfBuiltShape ==
  (bpc = "finished" /\ ~bb.drain_wallet /\ bres.res = "Ok")
    => LET rate == IF bb.fee_rate.tag = "None" THEN 1 ELSE bb.fee_rate.v
           fee == fee_vb(rate, estimate_tx_size(Len(bres.inputs),
                                                Len(bres.outputs)))
           leftover == sum_values(bres.inputs) - sum_amounts(bb.recipients) - fee
       IN /\ bres.change <=> (leftover > DustThreshold)
          /\ bres.change => bres.outputs[Len(bres.outputs)] = leftover

\* C21: in drain mode with a non-empty candidate set, finish selects every
\* candidate as an input and produces a transaction with exactly one output,
\* whose value equals the total selected value minus the estimated fee, and
\* no change output, for zero, one or several recipients.
C21_DrainOneOutput ==
  (bpc = "finished" /\ bb.drain_wallet
     /\ Len(get_available_utxos(bw.v, bb)) > 0)
    => LET cand == get_available_utxos(bw.v, bb)
           rate == IF bb.fee_rate.tag = "None" THEN 1 ELSE bb.fee_rate.v
           fee == fee_vb(rate, estimate_tx_size(Len(cand), Len(bb.recipients)))
       IN /\ bres.res = "Ok"
          /\ Len(bres.inputs) = Len(cand)
          /\ \A j \in 1..Len(cand) : \E i \in 1..Len(bres.inputs) :
               bres.inputs[i] = cand[j]
          /\ bres.outputs = <<sum_values(cand) - fee>>
          /\ ~bres.change

\* C22: finish never aborts the process on insufficient funds: for every
\* candidate set, recipient list, fee rate and mode, including drain mode
\* where the total selected value is less than the estimated fee, finish
\* returns either a transaction or a named recoverable error.
C22_FinishNeverAborts ==
  bpc = "finished"
    => bres.res \in {"Ok", "NoRecipients", "NoUtxos", "InsufficientFunds"}

(***************************************************************************)
(* Properties of the registry's validated operations (SpecKeyRing).        *)
(***************************************************************************)
\* C23: add_descriptor_validated(k, d), d a single-path descriptor, on a
\* registry that already holds keychain id k fails with DuplicateDescriptor
\* and leaves the registry's map unchanged: k still maps to its prior
\* descriptor and no other entry is added or removed.
C23_DuplicateKeychainRefused ==
  (/\ kcall.op = "add_descriptor_validated"
   /\ kcall.input.kind = "single"
   /\ kcall.keychain \in DOMAIN kprev.descriptors)
    => /\ kret = "DuplicateDescriptor"
       /\ DOMAIN kr.descriptors = DOMAIN kprev.descriptors
       /\ \A k \in DOMAIN kprev.descriptors :
            kr.descriptors[k] = kprev.descriptors[k]

\* a keychain bound to one descriptor was offered another one
C23_Witness ==
  /\ kcall.op = "add_descriptor_validated"
  /\ kcall.input.kind = "single"
  /\ kcall.keychain \in DOMAIN kprev.descriptors
  /\ kprev.descriptors[kcall.keychain] # kcall.input.d
  /\ at_derivation_index_ok(kcall.input.d)
  /\ kret = "DuplicateDescriptor"

\* C24: add_multipath_descriptor_validated fails atomically: whenever it
\* returns an error (an identifier of any branch already present, or any
\* branch unable to derive index 0), the registry's descriptor map equals
\* the map before the call, no branch of the batch having been inserted.
C24_MultipathFailsAtomically ==
  (kcall.op = "add_multipath_descriptor_validated" /\ kret # "Ok")
    => kr.descriptors = kprev.descriptors

\* C25: add_multipath_descriptor_validated on a descriptor that is not
\* multipath fails with SingleDescriptorNotAllowed, and
\* add_descriptor_validated on a multipath descriptor fails with
\* MultipathDescriptorNotAllowed; in both cases the registry's map is
\* unchanged.
C25_WrongKindRefused ==
  /\ (kcall.op = "add_multipath_descriptor_validated"
        /\ kcall.input.kind = "single")
       => (kret = "SingleDescriptorNotAllowed"
             /\ kr.descriptors = kprev.descriptors)
  /\ (kcall.op = "add_descriptor_validated" /\ kcall.input.kind = "multi")
       => (kret = "MultipathDescriptorNotAllowed"
             /\ kr.descriptors = kprev.descriptors)

\* a single-path descriptor that the registry does not hold and that can
\* derive addresses was offered as a multipath one
C25_Witness ==
  /\ kcall.op = "add_multipath_descriptor_validated"
  /\ kcall.input.kind = "single"
  /\ at_derivation_index_ok(kcall.input.d)
  /\ descriptor_id(kcall.input.d) \notin DOMAIN kprev.descriptors
  /\ kret = "SingleDescriptorNotAllowed"

(***************************************************************************)
(* Properties of apply_update, statement by statement (SpecUpdate).        *)
(***************************************************************************)
\* the statements taken together are Wallet::apply_update
UpdateStepsAreApplyUpdate ==
  /\ upc = "done" => uw = apply_update(ustart.v, uupd)
  /\ upc = "panicked" => apply_update(ustart.v, uupd).tag = "panic"

\* C26: apply_update composes the chain-tip delta, then the index
\* reveal-to-target delta, then the tx-graph delta into one changeset and
\* merges it into the stage in a single step, so the stage never holds only
\* part of an update; when the new tip does not connect to known history
\* the operation stops at the chain step, before the index, the graph or
\* the stage have been modified.
C26_StageWhole ==
  /\ upc \in {"chain", "index", "graph", "stage", "panicked"}
       => uw.v.stage = ustart.v.stage
  /\ upc \in {"stage", "done"}
       => ucs = state_delta(ustart.v, IF upc = "done" THEN uw.v
                                       ELSE stage(uw.v, ucs))
  /\ upc = "done" => uw.v.stage = merge(ustart.v.stage, ucs)
  /\ upc = "panicked"
       => /\ uw = ustart
          /\ ucs = ChangeSet_default
          /\ uupd.chain.tag = "Some"
          /\ LocalChain_apply_update(ustart.v.chain, uupd.chain.v).tag
               = "CannotConnect"
  /\ (uupd.chain.tag = "Some" /\ upc \in {"index", "graph", "stage", "done"})
       => LocalChain_apply_update(ustart.v.chain, uupd.chain.v).tag = "Some"

C26_StageInOneStep ==
  [][uw'.v.stage # uw.v.stage
       => /\ upc = "stage" /\ upc' = "done"
          /\ uw'.v.stage = merge(uw.v.stage, ucs)]_vars

C26_UpdateStagedAtomically == []C26_StageWhole /\ C26_StageInOneStep

\* an update with a new tip, new transactions and higher indices has been
\* staged on a stage that already held something
C26_Witness ==
  /\ upc = "done"
  /\ ucs.local_chain # EmptyMap /\ ucs.tx_graph # {} /\ ucs.indexer # EmptyMap
  /\ ~is_empty(ustart.v.stage)

\* what a finished build did to the wallet: nothing
FinishLeavesWallet == bres.wallet = bw.v

\* what a finished build did to the wallet: the keychain owning the first
\* selected coin has one more revealed index, and that index delta is staged
FinishRevealsOne ==
  LET k == bres.inputs[1].keychain
      d == descriptor_id(bw.v.tx_graph.index.keychains[k])
      before == last_revealed(bw.v)
      after == last_revealed(bres.wallet)
  IN /\ d \in DOMAIN after
     /\ after[d] = IF d \in DOMAIN before THEN before[d] + 1 ELSE 0
     /\ DOMAIN after = DOMAIN before \cup {d}
     /\ \A x \in DOMAIN before : x # d => after[x] = before[x]
     /\ bres.wallet.stage = merge(bw.v.stage, from_indexer(d :> after[d]))
     /\ bres.wallet =
          [bw.v EXCEPT !.tx_graph.index.last_revealed = after,
                       !.stage = bres.wallet.stage]

\* C27 as stated: a finish that returns an error leaves the wallet's stage
\* and revealed indices unchanged; a successful finish changes wallet state
\* only when it adds a change output, and then by revealing exactly one new
\* address on the keychain that owns the first selected coin, the resulting
\* index delta being merged into the stage.
C27_ChangeRevealsExactlyOne ==
  (bpc = "finished" /\ bres.res # "panic")
    => /\ bres.res # "Ok" => FinishLeavesWallet
       /\ (bres.res = "Ok" /\ ~bres.change) => FinishLeavesWallet
       /\ (bres.res = "Ok" /\ bres.change) => FinishRevealsOne

\* C27, amended: a successful finish that adds a change output reveals
\* exactly one new address on the keychain that owns the first selected
\* coin when that keychain has an address left to reveal, and otherwise
\* (a descriptor without wildcard whose only address is revealed) sends the
\* change to the last revealed address and leaves the wallet unchanged.
C27_ChangeRevealsAtMostOne ==
  (bpc = "finished" /\ bres.res # "panic")
    => /\ bres.res # "Ok" => FinishLeavesWallet
       /\ (bres.res = "Ok" /\ ~bres.change) => FinishLeavesWallet
       /\ (bres.res = "Ok" /\ bres.change)
            => LET k == bres.inputs[1].keychain
                   desc == bw.v.tx_graph.index.keychains[k]
                   left == has_wildcard(desc)
                             \/ descriptor_id(desc)
                                  \notin DOMAIN last_revealed(bw.v)
               IN IF left THEN FinishRevealsOne ELSE FinishLeavesWallet

\* a build added a change output and revealed the next address of a
\* keychain that had revealed addresses before
C27_Witness ==
  /\ bpc = "finished" /\ bres.res = "Ok" /\ bres.change
  /\ FinishRevealsOne
  /\ descriptor_id(bw.v.tx_graph.index.keychains[bres.inputs[1].keychain])
       \in DOMAIN last_revealed(bw.v)

\* C28: the size estimate is 10 + 148 x inputs + 34 x outputs, and the fee
\* used by coin selection, by assembly and in the returned details equals
\* fee_rate x estimated size for every fee rate and every shape the builder
\* prices, including fee rates for which that product exceeds the amount
\* range.
C28_FeeIsRateTimesSize ==
  bpc = "finished"
    => LET rate == IF bb.fee_rate.tag = "None" THEN 1 ELSE bb.fee_rate.v
           size(n) == 10 + 148 * n + 34 * Len(bb.recipients)
           target == sum_amounts(bb.recipients)
       IN /\ bres.res = "Ok"
               => /\ estimate_tx_size(Len(bres.inputs), Len(bb.recipients))
                       = size(Len(bres.inputs))
                  /\ bres.fee = rate * size(Len(bres.inputs))
                  /\ bres.change
                       => bres.outputs[Len(bres.outputs)]
                            = sum_values(bres.inputs) - target
                                - rate * size(Len(bres.inputs))
                  /\ (bb.drain_wallet /\ Len(bb.recipients) > 0)
                       => bres.outputs
                            = <<sum_values(bres.inputs)
                                  - rate * size(Len(bres.inputs))>>
                  /\ ~bb.drain_wallet
                       => sum_values(bres.inputs)
                            >= target + rate * size(Len(bres.inputs))
          /\ bres.res = "InsufficientFunds"
               => bres.required
                    = target
                        + rate * size(Len(get_available_utxos(bw.v, bb)))

\* C29: when a preferred keychain is set, every input of the built
\* transaction spends an output owned by that keychain, and funds of other
\* keychains are never used: if the preferred keychain has no unspent
\* outputs finish fails with NoUtxos even when other keychains hold enough
\* funds.
C29_PreferredKeychainOnly ==
  (bpc = "finished" /\ bb.preferred_keychain # None)
    => LET index == bw.v.tx_graph.index
           owner(t) == keychain_of(index, tx_output(t).did)
           held == {t \in full_txs(bw.v.tx_graph.txs) :
                      owner(t) = bb.preferred_keychain}
       IN /\ bres.res = "Ok"
               => \A i \in 1..Len(bres.inputs) :
                    /\ bres.inputs[i].outpoint \in held
                    /\ bres.inputs[i].keychain = bb.preferred_keychain
          /\ (held = {} /\ (Len(bb.recipients) > 0 \/ bb.drain_wallet))
               => bres.res = "NoUtxos"

\* the preferred keychain is registered and holds nothing, the build fails
\* with NoUtxos, and without the preference the same build succeeds
C29_Witness ==
  /\ bpc = "finished" /\ bb.preferred_keychain # None
  /\ bb.preferred_keychain \in DOMAIN bw.v.tx_graph.index.keychains
  /\ bres.res = "NoUtxos"
  /\ ~bb.drain_wallet
  /\ finish(bw.v, [bb EXCEPT !.preferred_keychain = None]).res = "Ok"

(***************************************************************************)
(* Staging against persistence (SpecPersist).                              *)
(***************************************************************************)
\* C30: staging and persistence agree: for any two aggregate changesets A
\* and B, persisting A and then B into a store leaves the same stored
\* network and descriptor table as persisting the single changeset
\* merge(A, B), including when A and B carry different networks or
\* different descriptors for the same identifier.
C30_PersistAgreesWithMerge ==
  plog = <<"a", "b">>
    => LET once == persist_to_sqlite(merge(pa, pb),
                                     init_sqlite_tables(EmptyStore))
       IN /\ pdb.network = once.network
          /\ pdb.descriptors = once.descriptors

(***************************************************************************)
(* Value conservation of a built transaction (SpecBuild).                  *)
(***************************************************************************)
\* C31: for every successful finish, the fee reported in TransactionDetails
\* equals the total value of the selected inputs minus the total value of
\* the transaction's outputs, in drain mode and in non-drain mode, with or
\* without a change output.
C31_ReportedFeeIsInputsMinusOutputs ==
  (bpc = "finished" /\ bres.res = "Ok")
    => bres.fee = sum_values(bres.inputs) - sum_amounts(bres.outputs)

(***************************************************************************)
(* Reload equivalence (Spec).                                              *)
(***************************************************************************)
\* LocalChain::tip: the highest block of the chain
chain_tip(chain) ==
  LET h == CHOOSE x \in DOMAIN chain : \A y \in DOMAIN chain : y <= x
  IN <<h, chain[h]>>

\* what Wallet::from_sqlite would rebuild from the store as it is
Reloaded == Wallet_from_sqlite(store, "none").wallet

\* after a successful persist the store rebuilds the wallet's bindings, its
\* chain tip and its last revealed indices
ReloadedSameState ==
  /\ Reloaded.tag = "Some"
  /\ keychains(Reloaded.v) = keychains(wallet.v)
  /\ chain_tip(Reloaded.v.chain) = chain_tip(wallet.v.chain)
  /\ last_revealed(Reloaded.v) = last_revealed(wallet.v)
  /\ is_empty(Reloaded.v.stage)

\* C32 as stated: after any sequence of reveal_next_address and apply_update
\* calls on a wallet followed by a successful persist_to_sqlite, a wallet
\* rebuilt with from_sqlite from the same store has the same
\* keychain-to-descriptor bindings, the same chain tip and the same last
\* revealed index per keychain, so its next reveal_next_address(k) returns
\* an index greater than every index revealed for k before the persist.
C32_ReloadRevealsAbove ==
  (wallet.tag = "Some" /\ last.op = "persist_to_sqlite" /\ last.res = "Ok")
    => /\ ReloadedSameState
       /\ \A k \in DOMAIN keychains(wallet.v) :
            LET did == descriptor_id(keychains(wallet.v)[k])
                r == reveal_next_address(Reloaded.v, k)
            IN /\ r.tag = "Some"
               /\ did \in DOMAIN last_revealed(wallet.v)
                    => r.i > last_revealed(wallet.v)[did]

\* C32, amended: when the store holds no other wallet's records (the wallet
\* was loaded from it, or built while it held nothing), the rebuilt wallet
\* has the same bindings, chain tip and last revealed indices, so its next
\* reveal_next_address(k) returns what the persisted wallet's would: for a
\* descriptor with a wildcard an index greater than every index revealed
\* for k before the persist, for a descriptor without wildcard its single
\* index 0 again.
C32_ReloadRevealsAsBefore ==
  (wallet.tag = "Some" /\ last.op = "persist_to_sqlite" /\ last.res = "Ok"
     /\ own)
    => /\ ReloadedSameState
       /\ \A k \in DOMAIN keychains(wallet.v) :
            LET d == keychains(wallet.v)[k]
                did == descriptor_id(d)
                r == reveal_next_address(Reloaded.v, k)
            IN /\ r.tag = "Some"
               /\ r.i = reveal_next_address(wallet.v, k).i
               /\ (has_wildcard(d) /\ did \in DOMAIN last_revealed(wallet.v))
                    => r.i > last_revealed(wallet.v)[did]
               /\ ~has_wildcard(d) => r.i = 0

\* a wallet that moved its tip and revealed index 1 of the wildcard keychain
\* was persisted: the store rebuilds it and the next index is 2
C32_Witness ==
  /\ wallet.tag = "Some" /\ last.op = "persist_to_sqlite" /\ last.res = "Ok"
  /\ own
  /\ last.ret.tag = "Some"
  /\ ReloadedSameState
  /\ chain_tip(wallet.v.chain)[1] > 0
  /\ \E k \in DOMAIN keychains(wallet.v) :
       /\ has_wildcard(keychains(wallet.v)[k])
       /\ descriptor_id(keychains(wallet.v)[k]) \in DOMAIN last_revealed(wallet.v)
       /\ last_revealed(wallet.v)[descriptor_id(keychains(wallet.v)[k])] = 1
       /\ reveal_next_address(Reloaded.v, k).i = 2

====
